---- MODULE Spec2Model ----
(***************************************************************************)
(* The candidate-ranking engine of textual-autocomplete:                   *)
(*   FuzzySearch.match / FuzzySearch._match  (fuzzy_search.py)             *)
(*   AutoComplete.get_matches                (_autocomplete2.py)           *)
(*                                                                         *)
(* A string is a sequence of characters; a character is a one-element name *)
(* ("a", "A", "-", ...).  Offsets are 0-based as in the source, so the     *)
(* character at offset p of s is s[p + 1].                                 *)
(***************************************************************************)
EXTENDS Integers, Sequences, FiniteSets, TLC

(***************************************************************************)
(* Bounds of the model.                                                    *)
(***************************************************************************)
MaxQueryLen == 2
MaxCandLen == 4

(***************************************************************************)
(* Characters.  "I*" stands for U+0130 (capital I with dot above), the one *)
(* code point whose str.lower() is two characters: "i" followed by the     *)
(* combining dot above U+0307, written "*" here.  "-" is a character that  *)
(* is not a word character; "_" is a word character that is not a letter;  *)
(* "LF" is the line feed.                                                  *)
(***************************************************************************)
Chars == {"a", "b", "A", "-"}

\* str.lower() of one character.
LowerChar(ch) ==
    CASE ch = "A" -> <<"a">>
      [] ch = "B" -> <<"b">>
      [] ch = "C" -> <<"c">>
      [] ch = "I*" -> <<"i", "*">>
      [] OTHER -> <<ch>>

\* str.lower(): the concatenation of the characters' lower-casings.
RECURSIVE Lower(_)
Lower(s) ==
    IF s = <<>> THEN <<>>
    ELSE IF Len(s) = 1 THEN LowerChar(s[1])
    ELSE Lower(SubSeq(s, 1, Len(s) \div 2))
           \o Lower(SubSeq(s, Len(s) \div 2 + 1, Len(s)))

\* The case folding of one character under re.IGNORECASE: the simple
\* (one-to-one) lower-case mapping, under which U+0130 folds to "i".
FoldChar(ch) ==
    CASE ch = "A" -> "a"
      [] ch = "B" -> "b"
      [] ch = "C" -> "c"
      [] ch = "I*" -> "i"
      [] OTHER -> ch

\* A character match that ignores case whatever the flags.
CharMatchesFolded(qch, ch, case_sensitive) == FoldChar(qch) = FoldChar(ch)

\* Whether the regex for one escaped character matches ch under the flags.
CharMatches(qch, ch, case_sensitive) ==
    IF case_sensitive THEN qch = ch ELSE FoldChar(qch) = FoldChar(ch)

\* "." of a regex compiled without DOTALL: any character but a line feed.
DotMatches(ch) == ch # "LF"

\* \w: letters, digits and the underscore.
WordChars ==
    {"a", "b", "c", "f", "i", "l", "n", "o", "r", "s", "t", "u", "x",
     "A", "B", "C", "I*", "_"}

\* A word character class without the underscore.
IsLetter(ch) == ch \in WordChars \ {"_"}

IsWordChar(ch) == ch \in WordChars

(***************************************************************************)
(* re.search(query_regex, candidate, flags) for                            *)
(*   query_regex = ".*?".join(f"({escape(character)})" ...)                *)
(* RegexFrom(q, c, k, p): the characters q[k..] can be matched in c from   *)
(* offset p on (1-based position p), with gaps that "." can cross.         *)
(***************************************************************************)
RECURSIVE RegexFrom(_, _, _, _, _)
RegexFrom(query, candidate, case_sensitive, k, p) ==
    IF k > Len(query) THEN TRUE
    ELSE \E j \in p..Len(candidate) :
            /\ CharMatches(query[k], candidate[j], case_sensitive)
            /\ \A g \in p..(j - 1) : DotMatches(candidate[g])
            /\ RegexFrom(query, candidate, case_sensitive, k + 1, j + 1)

\* A pre-check that no candidate passes for the empty query.
RegexSearchNonEmpty(query, candidate, case_sensitive) ==
    /\ query # <<>>
    /\ \E j \in 1..Len(candidate) :
            /\ CharMatches(query[1], candidate[j], case_sensitive)
            /\ RegexFrom(query, candidate, case_sensitive, 2, j + 1)

\* The first character of the regex may match at any position of the search;
\* the gaps before the later ones are ".*?".
RegexSearch(query, candidate, case_sensitive) ==
    IF query = <<>> THEN TRUE
    ELSE \E j \in 1..Len(candidate) :
            /\ CharMatches(query[1], candidate[j], case_sensitive)
            /\ RegexFrom(query, candidate, case_sensitive, 2, j + 1)

(***************************************************************************)
(* fuzzy_search.py                                                         *)
(***************************************************************************)

\* _Search(candidate_offset, query_offset, offsets)
NewSearch(candidate_offset, query_offset, offsets) ==
    [candidate_offset |-> candidate_offset,
     query_offset |-> query_offset,
     offsets |-> offsets]

\* A branch whose second search starts one offset too far.
branch_past_next(search, offset) ==
    << NewSearch(offset + 1, search.query_offset + 1,
                 Append(search.offsets, offset)),
       NewSearch(offset + 2, search.query_offset, search.offsets) >>

\* _Search.branch: <<advance_branch, branch>>
branch(search, offset) ==
    << NewSearch(offset + 1, search.query_offset + 1,
                 Append(search.offsets, offset)),
       NewSearch(offset + 1, search.query_offset, search.offsets) >>

\* A group count that does not look at the offsets.
groups_one(offsets) == 1

\* A group count that takes every offset for a group of its own.
groups_all_apart(offsets) == Len(offsets)

\* _Search.groups, for a non-empty tuple of offsets.
groups(offsets) ==
    1 + Cardinality({k \in 2..Len(offsets) : offsets[k] # offsets[k - 1] + 1})

\* {match.start() for match in finditer(r"\w+", candidate)}
first_letters(candidate) ==
    {p \in 0..(Len(candidate) - 1) :
        /\ IsWordChar(candidate[p + 1])
        /\ (p = 0 \/ ~IsWordChar(candidate[p]))}

\* The scores are exact: a score is held as ScoreScale times its value, and
\* ScoreScale is a multiple of offset_count^2 for every offset count that the
\* queries of the model give (lower-casing can double a query's length; the
\* quoted queries have at most three characters).  For the query of
\* QuotedQueryLen characters the factor for the groups is rounded down to a
\* multiple of 1 / ScoreScale, which keeps different scores different and in
\* their order.
RECURSIVE Gcd(_, _)
Gcd(m, n) == IF n = 0 THEN m ELSE Gcd(n, m % n)

RECURSIVE LcmUpTo(_)
LcmUpTo(n) ==
    IF n <= 1 THEN 1 ELSE (LcmUpTo(n - 1) * n) \div Gcd(LcmUpTo(n - 1), n)

ScoreScale == LcmUpTo(2 * MaxQueryLen + 2) * LcmUpTo(2 * MaxQueryLen + 2)

\* A score without the factor for the groups.
score_ungrouped(offsets, first) ==
    (Len(offsets)
       + Cardinality(first \cap {offsets[k] : k \in 1..Len(offsets)}))
    * ScoreScale

\* A score whose factor for the groups is not squared.
score_linear(offsets, first) ==
    (Len(offsets)
       + Cardinality(first \cap {offsets[k] : k \in 1..Len(offsets)}))
    * (ScoreScale
         + ((Len(offsets) - (groups(offsets) - 1)) * ScoreScale)
             \div Len(offsets))

\* score(search) of _match:
\*   score = offset_count + |first_letters & offsets|
\*   normalized_groups = (offset_count - (groups - 1)) / offset_count
\*   score *= 1 + normalized_groups * normalized_groups
score(offsets, first) ==
    LET offset_count == Len(offsets)
        base == offset_count
                  + Cardinality(first \cap {offsets[k] : k \in 1..Len(offsets)})
        numerator == offset_count - (groups(offsets) - 1)
    IN  base * (ScoreScale
                  + (numerator * numerator * ScoreScale)
                      \div (offset_count * offset_count))

\* str.find(ch, start): the first offset >= start holding ch, or -1.
find(candidate, ch, start) ==
    IF \E p \in start..(Len(candidate) - 1) : candidate[p + 1] = ch
    THEN CHOOSE p \in start..(Len(candidate) - 1) :
            /\ candidate[p + 1] = ch
            /\ \A r \in start..(p - 1) : candidate[r + 1] # ch
    ELSE -1

\* A test that asks for the whole query among the rest of the candidate.
issuperset_whole_query(candidate, candidate_offset, query, query_offset) ==
    \A k \in 1..Len(query) :
        \E p \in (candidate_offset + 1)..Len(candidate) :
            candidate[p] = query[k]

\* set(candidate[candidate_offset:]).issuperset(query[query_offset:])
issuperset(candidate, candidate_offset, query, query_offset) ==
    \A k \in (query_offset + 1)..Len(query) :
        \E p \in (candidate_offset + 1)..Len(candidate) :
            candidate[p] = query[k]

remaining_loops == 10000

\* The while loop of _match.  The stack is a sequence whose last element is
\* its top; yielded is the sequence of <<score, offsets>> yielded so far.
RECURSIVE match_loop(_, _, _, _, _, _)
match_loop(query, candidate, first, stack, remaining, yielded) ==
    IF stack = <<>> \/ remaining - 1 = 0 THEN yielded
    ELSE
      LET search == stack[Len(stack)]
          popped == SubSeq(stack, 1, Len(stack) - 1)
          offset == find(candidate, query[search.query_offset + 1],
                         search.candidate_offset)
      IN
        IF offset = -1
        THEN match_loop(query, candidate, first, popped, remaining - 1, yielded)
        ELSE IF ~issuperset(candidate, search.candidate_offset,
                            query, search.query_offset)
        THEN match_loop(query, candidate, first, popped, remaining - 1, yielded)
        ELSE
          LET both == branch(search, offset)
              advance_branch == both[1]
              skip_branch == both[2]
          IN IF advance_branch.query_offset = Len(query)
             THEN match_loop(query, candidate, first,
                             Append(popped, skip_branch), remaining - 1,
                             Append(yielded,
                                    << score(advance_branch.offsets, first),
                                       advance_branch.offsets >>))
             ELSE match_loop(query, candidate, first,
                             popped \o << skip_branch, advance_branch >>,
                             remaining - 1, yielded)

\* FuzzySearch._match: the pairs it yields, in order.
match_yields(query, candidate, case_sensitive) ==
    LET q == IF case_sensitive THEN query ELSE Lower(query)
        c == IF case_sensitive THEN candidate ELSE Lower(candidate)
    IN  match_loop(q, c, first_letters(c), << NewSearch(0, 0, <<>>) >>,
                   remaining_loops, <<>>)

NoMatch == << 0, <<>> >>

\* A max() that returns the last pair of the greatest score.
max_by_score_last(yielded) ==
    IF yielded = <<>> THEN NoMatch
    ELSE yielded[CHOOSE k \in 1..Len(yielded) :
                    /\ \A j \in 1..Len(yielded) : yielded[j][1] <= yielded[k][1]
                    /\ \A j \in (k + 1)..Len(yielded) :
                          yielded[j][1] < yielded[k][1]]

\* max(iterable, key=itemgetter(0), default=(0.0, ())): the first pair of the
\* greatest score.
max_by_score(yielded) ==
    IF yielded = <<>> THEN NoMatch
    ELSE yielded[CHOOSE k \in 1..Len(yielded) :
                    /\ \A j \in 1..Len(yielded) : yielded[j][1] <= yielded[k][1]
                    /\ \A j \in 1..(k - 1) : yielded[j][1] < yielded[k][1]]

\* What match computes when the pre-check passes and the key is not cached.
compute(query, candidate, case_sensitive) ==
    max_by_score(match_yields(query, candidate, case_sensitive))

(***************************************************************************)
(* The shared LRU cache (FuzzySearch.cache): a sequence of entries         *)
(* [key, value], least recently used first.                                *)
(***************************************************************************)
cache_maxsize == 4096

\* A key that leaves the case flag out.
CacheKeyWithoutFlag(query, candidate, case_sensitive) ==
    << query, candidate >>

\* A key that holds the lower-cased query.
CacheKeyFolded(query, candidate, case_sensitive) ==
    << Lower(query), candidate, case_sensitive >>

\* cache_key = (query, candidate, self.case_sensitive)
CacheKey(query, candidate, case_sensitive) ==
    << query, candidate, case_sensitive >>

\* cache_key in self.cache
CacheHas(c, key) == \E k \in 1..Len(c) : c[k].key = key

CacheIndex(c, key) == CHOOSE k \in 1..Len(c) : c[k].key = key

\* self.cache[cache_key]: the value; the entry becomes the most recently used.
CacheValue(c, key) == c[CacheIndex(c, key)].value

CacheTouch(c, key) ==
    LET k == CacheIndex(c, key)
    IN  SubSeq(c, 1, k - 1) \o SubSeq(c, k + 1, Len(c)) \o << c[k] >>

\* A cache that never evicts.
CacheSetUnbounded(c, key, value) == Append(c, [key |-> key, value |-> value])

\* self.cache[cache_key] = result, for a key that is not in the cache: the
\* entry is added as the most recently used, and the least recently used one
\* is evicted when the cache then holds more than maxsize entries.
CacheSet(c, key, value) ==
    LET added == Append(c, [key |-> key, value |-> value])
    IN  IF Len(added) > cache_maxsize THEN Tail(added) ELSE added

Raised == << -1, <<>> >>

\* A constructor that drops its argument and keeps the default.
NewFuzzySearchDefault(cs) == [case_sensitive |-> FALSE]

\* FuzzySearch.__init__
NewFuzzySearch(cs) == [case_sensitive |-> cs]

\* FuzzySearch.match(query, candidate) on the cache c: what it returns (or
\* Raised, when query[0] raises IndexError in _match), the cache it leaves
\* and the path it took.
match(c, self, q, cand) ==
    IF ~RegexSearch(q, cand, self.case_sensitive)
    THEN [result |-> NoMatch, cache |-> c, outcome |-> "rejected"]
    ELSE LET cache_key == CacheKey(q, cand, self.case_sensitive)
         IN  IF CacheHas(c, cache_key)
             THEN [result |-> CacheValue(c, cache_key),
                   cache |-> CacheTouch(c, cache_key),
                   outcome |-> "hit"]
             ELSE IF q = <<>>
             THEN [result |-> Raised, cache |-> c, outcome |-> "raised"]
             ELSE LET computed == compute(q, cand, self.case_sensitive)
                  IN  [result |-> computed,
                       cache |-> CacheSet(c, cache_key, computed),
                       outcome |-> "miss"]

(***************************************************************************)
(* The state.                                                              *)
(***************************************************************************)
VARIABLES
    cache,            \* FuzzySearch.cache
    query,            \* the query of the calls of match
    candidate,        \* the candidate of the calls of match
    case_sensitive,   \* the case flag the last call of match was made with
    result,           \* what the last call of match returned
    outcome,          \* how the last call ended: "none" before any call;
                      \*   "rejected", "hit", "miss", "raised" for match;
                      \*   "returned", "raised" for get_matches
    candidates,       \* the candidates given to get_matches
    search_string,    \* the search string given to get_matches
    matches,          \* what the last call of get_matches returned
    engine_calls,     \* the calls of FuzzySearch.match it made
    search,           \* the locals of the running _match generator
    best,             \* what max() holds of the pairs yielded so far
    pops,             \* the search states popped by the running _match
    completed,        \* the first pair yielded for each score yielded
    group_counts,     \* history: the numbers of groups of the pairs yielded
    caller,           \* the FuzzySearch instance the last call was made on
    stored_by,        \* which instance stored each cache entry
    value,            \* Input.value of the target
    cursor_position,  \* Input.cursor_position of the target
    has_focus,        \* Input.has_focus of the target
    display,          \* AutoComplete.display (styles.display is not "none")
    options,          \* the options of the AutoCompleteList
    option_highlighted,   \* OptionList.highlighted: <<>> for None, or
                          \*   << index >>, the indexes counted from 0
    last_action_was_completion,   \* AutoComplete.last_action_was_completion
    target_state,     \* AutoComplete._target_state
    pending,          \* the Input.Changed messages posted and not yet handled
    prevent_default_enter,    \* AutoComplete.prevent_default_enter
    prevent_default_tab,      \* AutoComplete.prevent_default_tab
    event,            \* the last event handled, with its stop and
                      \*   prevent_default marks
    completion_performed, \* history: _complete has completed the target
    settling,         \* history: a completion was made with no Input.Changed
                      \*   in flight, and since then only Input.Changed
                      \*   messages have been handled
    typed_ahead,      \* history: the Input.Changed in flight that were
                      \*   posted before the last completion
    called,           \* the last call of a method of PathAutoComplete: its
                      \*   name and the completion value it was given
    directory_cache,  \* PathAutoComplete._directory_cache: the entries from
                      \*   the least to the most recently used
    file_system,      \* what os.scandir gives for each directory now: a
                      \*   list of entries, or OSError
    scanned,          \* the directories the last call gave to os.scandir
    returned          \* what the last call of get_candidates returned

vars == << cache, query, candidate, case_sensitive, result, outcome,
           candidates, search_string, matches, engine_calls,
           search, best, pops, completed, group_counts, caller,
           stored_by,
           value, cursor_position, has_focus, display, options,
           option_highlighted, last_action_was_completion, target_state,
           pending, prevent_default_enter, prevent_default_tab, event,
           completion_performed, settling, typed_ahead, called,
           directory_cache, file_system, scanned, returned >>

matchVars == << query, candidate, case_sensitive, result >>
rankVars == << candidates, search_string, matches, engine_calls >>
searchVars == << search, best, pops, completed, group_counts >>
sharedVars == << caller, stored_by >>
widgetVars == << value, cursor_position, has_focus, display, options,
                option_highlighted, last_action_was_completion, target_state,
                pending, prevent_default_enter, prevent_default_tab, event,
                completion_performed, settling, typed_ahead >>

dirVars == << directory_cache, file_system, scanned, returned >>
pathVars == << called, directory_cache, file_system, scanned, returned >>

\* No _match generator is running.
NoSearch ==
    [query |-> <<>>, candidate |-> <<>>, first_letters |-> {},
     stack |-> <<>>, remaining_loops |-> 0]

SearchIdle ==
    /\ search = NoSearch
    /\ best = <<>>
    /\ pops = 0
    /\ completed = {}
    /\ group_counts = {}

\* The instances of FuzzySearch are not told apart.
NoInstance == [id |-> 0, case_sensitive |-> FALSE]

SharedIdle ==
    /\ caller = NoInstance
    /\ stored_by = {}

\* A call of a method of PathAutoComplete: apply_completion is given a
\* completion value.
Call(method, completion) == [method |-> method, value |-> completion]

\* What a call of get_candidates returned, or what it raised.
ReturnValue(raised, items) == [raised |-> raised, candidates |-> items]

\* get_candidates has not been called.
NothingReturned == ReturnValue("not called", <<>>)

\* No directory has been scanned: the cache is empty, and the model does
\* not say what the directories hold.
DirIdle ==
    /\ directory_cache = <<>>
    /\ file_system = <<>>
    /\ scanned = <<>>
    /\ returned = NothingReturned

PathIdle ==
    /\ called = Call("none", <<>>)
    /\ DirIdle

\* Python's None, where a rich Text may stand.
None == [none |-> TRUE]

\* TargetState(text, selection), the selection being a cursor in row 0.
TargetState(text, cursor) == [text |-> text, selection |-> cursor]

\* An event as it arrives: not stopped, its default not prevented.
Event(key) == [key |-> key, stopped |-> FALSE, prevented |-> FALSE]

\* An AutoComplete as __init__ and the style sheet leave it, with the default
\* options, on an Input that is empty and not focused.
WidgetIdle ==
    /\ value = <<>>
    /\ cursor_position = 0
    /\ has_focus = FALSE
    /\ display = FALSE
    /\ options = <<>>
    /\ option_highlighted = <<>>
    /\ last_action_was_completion = FALSE
    /\ target_state = TargetState(<<>>, 0)
    /\ pending = 0
    /\ prevent_default_enter = TRUE
    /\ prevent_default_tab = TRUE
    /\ event = Event("none")
    /\ completion_performed = FALSE
    /\ settling = FALSE
    /\ typed_ahead = 0

RECURSIVE StringsOfLen(_, _)
StringsOfLen(alphabet, n) ==
    IF n = 0 THEN {<<>>}
    ELSE {Append(s, ch) : s \in StringsOfLen(alphabet, n - 1), ch \in alphabet}

Strings(alphabet, lens) == UNION {StringsOfLen(alphabet, n) : n \in lens}

Queries == Strings(Chars, 0..MaxQueryLen)
Candidates == Strings(Chars, 0..MaxCandLen)

\* Inputs beyond the enumerated ones: the strings the documentation quotes,
\* and strings holding U+0130 or a line feed.
FooUnderscoreBar == << "f", "o", "o", "_", "b", "a", "r" >>
FooHyphenBar == << "f", "o", "o", "-", "b", "a", "r" >>
Istanbul == << "I*", "s", "t", "a", "n", "b", "u", "l" >>

Examples ==
    { << <<"b">>, FooUnderscoreBar >>,
      << <<"o">>, FooUnderscoreBar >>,
      << <<"b">>, FooHyphenBar >>,
      << <<"o">>, FooHyphenBar >>,
      << <<"A", "B", "C">>, <<"x", "x", "a", "b", "c", "x", "x">> >>,
      << <<"a", "b">>, <<"a", "-", "b", "a", "b">> >>,
      << <<"s", "t">>, Istanbul >>,
      << <<"I*">>, <<"I*">> >>,
      << <<"i", "*">>, <<"I*">> >>,
      << <<"a", "b">>, <<"a", "LF", "b">> >> }

Inputs == (Queries \X Candidates) \cup Examples

\* A cache at its capacity, as earlier calls leave it: its least recently
\* used entry is the result for (q, c, False), the others are the results for
\* the query "x" and cache_maxsize - 1 candidates "x?" whose second character
\* occurs nowhere else and is not a word character.
OtherCandidate(k) == << "x", ToString(k) >>

FullCache(q, c) ==
    << [key |-> CacheKey(q, c, FALSE), value |-> compute(q, c, FALSE)] >>
    \o [k \in 1..(cache_maxsize - 1) |->
           [key |-> CacheKey(<<"x">>, OtherCandidate(k), FALSE),
            value |-> compute(<<"x">>, OtherCandidate(k), FALSE)]]

\* The caches the calls for q and c start from: the empty one and, for the
\* quoted inputs whose result can be in the cache, the one at its capacity.
InitialCaches(q, c) ==
    IF << q, c >> \in Examples /\ q # <<>> /\ RegexSearch(q, c, FALSE)
    THEN {<<>>, FullCache(q, c)}
    ELSE {<<>>}

Init ==
    /\ \E input \in Inputs :
          /\ query = input[1]
          /\ candidate = input[2]
          /\ cache \in InitialCaches(input[1], input[2])
    /\ case_sensitive = FALSE
    /\ result = NoMatch
    /\ outcome = "none"
    /\ candidates = <<>>
    /\ search_string = <<>>
    /\ matches = <<>>
    /\ engine_calls = 0
    /\ SearchIdle
    /\ SharedIdle
    /\ PathIdle
    /\ WidgetIdle

\* FuzzySearch(case_sensitive=cs).match(query, candidate)
Match(cs) ==
    \E call \in {match(cache, NewFuzzySearch(cs), query, candidate)} :
        /\ case_sensitive' = cs
        /\ result' = call.result
        /\ outcome' = call.outcome
        /\ cache' = call.cache
        /\ UNCHANGED << query, candidate >>
        /\ UNCHANGED rankVars
        /\ UNCHANGED sharedVars
        /\ UNCHANGED pathVars
        /\ UNCHANGED widgetVars
        /\ UNCHANGED searchVars

Next == \E cs \in BOOLEAN : Match(cs)

Spec == Init /\ [][Next]_vars

\* The calls of match for queries and candidates of letters and hyphens, in
\* which words start at several offsets, on an empty cache.
AlignChars == {"a", "b", "-"}

AlignInputs ==
    Strings(AlignChars, 0..MaxQueryLen) \X Strings(AlignChars, 0..MaxCandLen)

InitAlign ==
    /\ \E input \in AlignInputs : query = input[1] /\ candidate = input[2]
    /\ cache = <<>>
    /\ case_sensitive = FALSE
    /\ result = NoMatch
    /\ outcome = "none"
    /\ candidates = <<>>
    /\ search_string = <<>>
    /\ matches = <<>>
    /\ engine_calls = 0
    /\ SearchIdle
    /\ SharedIdle
    /\ PathIdle
    /\ WidgetIdle

SpecAlign == InitAlign /\ [][Next]_vars

(***************************************************************************)
(* The ranking pipeline: AutoComplete.get_matches (_autocomplete2.py) and  *)
(* the Matcher it builds (matcher.py).                                     *)
(***************************************************************************)
MaxItems == 3
MaxMainLen == 2
MaxSearchLen == 2

MainChars == {"a", "b"}

\* rich Text: its plain text and the offsets a highlight style is applied to.
Text(plain, highlighted) == [plain |-> plain, highlighted |-> highlighted]

\* DropdownItem.__init__ for a main and a left_meta that are Text already.
DropdownItem(main, left_meta, id, disabled) ==
    [main |-> main, left_meta |-> left_meta, id |-> id, disabled |-> disabled]

\* Matcher(query, match_style, case_sensitive)
Matcher(q, match_style, cs) ==
    [query |-> q, match_style |-> match_style,
     fuzzy_search |-> NewFuzzySearch(cs)]

\* A Matcher that hands its query over as the candidate.
matcher_match_swapped(c, matcher, cand) ==
    match(c, matcher.fuzzy_search, cand, matcher.query)

\* Matcher.match(candidate): the call of FuzzySearch.match it delegates to;
\* the score is the first component of its result.
matcher_match(c, matcher, cand) ==
    match(c, matcher.fuzzy_search, matcher.query, cand)

\* The candidate's text with the emphasis on the offsets of a match.
highlighted(cand, call) ==
    [text |-> Text(cand, IF call.result[1] > 0
                         THEN {call.result[2][k] : k \in 1..Len(call.result[2])}
                         ELSE {}),
     cache |-> call.cache,
     outcome |-> call.outcome]

\* Matcher.highlight(candidate): the candidate's text with the emphasis on
\* the matched offsets, and the cache left by the call of FuzzySearch.match
\* that gives them.
matcher_highlight(c, matcher, cand) ==
    highlighted(cand, match(c, matcher.fuzzy_search, matcher.query, cand))

\* A guard that never returns early.
never_bypasses(s) == FALSE

\* if not search_string: return candidates
bypasses(s) == s = <<>>

\* A filter that keeps the candidates of score 0.0 as well.
is_scored(match_score) == match_score >= 0

\* if (score := get_score(candidate_string)) > 0
is_match(match_score) == match_score > 0

\* The for loop of get_matches from candidate k on.  acc holds the cache so
\* far, the (item, score) pairs appended, the calls of FuzzySearch.match made
\* and whether one of them raised.  scored_candidate is the loop body once
\* get_score has returned scored; kept_candidate is the body of the if, once
\* get_highlighted has returned lit.
RECURSIVE score_candidates(_, _, _, _)
RECURSIVE scored_candidate(_, _, _, _, _)
RECURSIVE kept_candidate(_, _, _, _, _, _)
kept_candidate(matcher, items, k, acc, match_score, lit) ==
    score_candidates(matcher, items, k + 1,
        [cache |-> lit.cache,
         scored |-> Append(acc.scored,
                           << DropdownItem(lit.text, items[k].left_meta,
                                           items[k].id, items[k].disabled),
                              match_score >>),
         calls |-> acc.calls + 2,
         raised |-> FALSE])

scored_candidate(matcher, items, k, acc, scored) ==
    IF scored.outcome = "raised"
    THEN [acc EXCEPT !.raised = TRUE, !.calls = @ + 1]
    ELSE IF is_match(scored.result[1])
    THEN kept_candidate(matcher, items, k, acc, scored.result[1],
             matcher_highlight(scored.cache, matcher, items[k].main.plain))
    ELSE score_candidates(matcher, items, k + 1,
             [acc EXCEPT !.cache = scored.cache, !.calls = @ + 1])

score_candidates(matcher, items, k, acc) ==
    IF k > Len(items) THEN acc
    ELSE scored_candidate(matcher, items, k, acc,
             matcher_match(acc.cache, matcher, items[k].main.plain))

\* An insertion that puts a pair before the pairs of its own score.
insert_before_ties(sorted, pair) ==
    LET before == Cardinality({k \in 1..Len(sorted) : sorted[k][2] > pair[2]})
    IN  SubSeq(sorted, 1, before) \o << pair >>
          \o SubSeq(sorted, before + 1, Len(sorted))

\* list.sort(key=itemgetter(1), reverse=True): by descending score, pairs of
\* equal score kept in their order.  insert_sorted puts a pair after every
\* pair of the sorted list whose score is at least its own.
insert_sorted(sorted, pair) ==
    LET before == Cardinality({k \in 1..Len(sorted) : sorted[k][2] >= pair[2]})
    IN  SubSeq(sorted, 1, before) \o << pair >>
          \o SubSeq(sorted, before + 1, Len(sorted))

RECURSIVE sort_by_score(_)
sort_by_score(pairs) ==
    IF pairs = <<>> THEN <<>>
    ELSE insert_sorted(sort_by_score(SubSeq(pairs, 1, Len(pairs) - 1)),
                       pairs[Len(pairs)])

\* matches = [match for match, _ in matches_and_scores]
without_scores(matches_and_scores) ==
    [k \in 1..Len(matches_and_scores) |-> matches_and_scores[k][1]]

\* What get_matches returns after its loop, and the effects it had.
ranked(looped) ==
    [matches |-> without_scores(sort_by_score(looped.scored)),
     cache |-> looped.cache,
     calls |-> looped.calls,
     raised |-> looped.raised]

\* AutoComplete.get_matches(target_state, candidates, search_string)
get_matches(c, items, s) ==
    IF bypasses(s)
    THEN [matches |-> items, cache |-> c, calls |-> 0, raised |-> FALSE]
    ELSE ranked(score_candidates(
                    Matcher(s, "autocomplete--highlight-match", FALSE),
                    items, 1,
                    [cache |-> c, scored |-> <<>>, calls |-> 0,
                     raised |-> FALSE]))

Mains == Strings(MainChars, 0..MaxMainLen)
SearchStrings == Strings(MainChars, 0..MaxSearchLen)

\* The candidate at position k of the candidate list: its id is its position,
\* every second one is disabled, the others have a left column.
CandidateItem(k, plain) ==
    DropdownItem(Text(plain, {}),
                 IF k % 2 = 1 THEN Text(<<"m">>, {}) ELSE None,
                 k,
                 k % 2 = 0)

\* The candidate list of the given main texts.
CandidateList(mains) == [k \in 1..Len(mains) |-> CandidateItem(k, mains[k])]

InitRanking ==
    /\ cache = <<>>
    /\ query = <<>>
    /\ candidate = <<>>
    /\ case_sensitive = FALSE
    /\ result = NoMatch
    /\ outcome = "none"
    /\ \E n \in 0..MaxItems : \E mains \in [1..n -> Mains] :
          candidates = CandidateList(mains)
    /\ search_string \in SearchStrings
    /\ matches = <<>>
    /\ engine_calls = 0
    /\ SearchIdle
    /\ SharedIdle
    /\ PathIdle
    /\ WidgetIdle

\* get_matches(target_state, candidates, s): s is the text as typed, or the
\* empty text left when it has been deleted.
GetMatches(s) ==
    \E call \in {get_matches(cache, candidates, s)} :
        /\ search_string' = s
        /\ cache' = call.cache
        /\ engine_calls' = call.calls
        /\ matches' = IF call.raised THEN matches ELSE call.matches
        /\ outcome' = IF call.raised THEN "raised" ELSE "returned"
        /\ UNCHANGED candidates
        /\ UNCHANGED matchVars
        /\ UNCHANGED searchVars
        /\ UNCHANGED sharedVars
        /\ UNCHANGED pathVars
        /\ UNCHANGED widgetVars

NextRanking == \E s \in {search_string, <<>>} : GetMatches(s)

SpecRanking == InitRanking /\ [][NextRanking]_vars

(***************************************************************************)
(* FuzzySearch.match step by step: the call, each iteration of the while   *)
(* loop of the _match generator that max() draws from, and the return.     *)
(***************************************************************************)

\* _match up to its loop: the lower-casing, first_letters, the stack with
\* the one initial _Search() and the loop budget.
start_search(q, c, cs) ==
    [query |-> IF cs THEN q ELSE Lower(q),
     candidate |-> IF cs THEN c ELSE Lower(c),
     first_letters |-> first_letters(IF cs THEN c ELSE Lower(c)),
     stack |-> << NewSearch(0, 0, <<>>) >>,
     remaining_loops |-> remaining_loops]

\* while stack and (remaining_loops := remaining_loops - 1)
loop_continues(frame) ==
    frame.stack # <<>> /\ frame.remaining_loops - 1 # 0

\* remaining_loops after the loop test: the walrus is evaluated only when
\* the stack is not empty.
loops_after_test(frame) ==
    IF frame.stack # <<>>
    THEN frame.remaining_loops - 1
    ELSE frame.remaining_loops

\* The stack after one iteration of the loop that popped top and found the
\* query's character at offset (or -1).
stack_after(frame, popped, top, offset) ==
    IF offset = -1 THEN popped
    ELSE IF ~issuperset(frame.candidate, top.candidate_offset,
                        frame.query, top.query_offset)
    THEN popped
    ELSE IF branch(top, offset)[1].query_offset = Len(frame.query)
    THEN Append(popped, branch(top, offset)[2])
    ELSE popped \o << branch(top, offset)[2], branch(top, offset)[1] >>

\* The pairs that iteration yields: none or one.
yields_of(frame, top, offset) ==
    IF offset = -1 THEN <<>>
    ELSE IF ~issuperset(frame.candidate, top.candidate_offset,
                        frame.query, top.query_offset)
    THEN <<>>
    ELSE IF branch(top, offset)[1].query_offset = Len(frame.query)
    THEN << << score(branch(top, offset)[1].offsets, frame.first_letters),
               branch(top, offset)[1].offsets >> >>
    ELSE <<>>

\* The offset the iteration finds for the search state on top of the stack.
found_offset(frame) ==
    find(frame.candidate,
         frame.query[frame.stack[Len(frame.stack)].query_offset + 1],
         frame.stack[Len(frame.stack)].candidate_offset)

\* An iteration that leaves the loop budget as it is.
expand_unbudgeted(frame) ==
    [frame EXCEPT
        !.stack = stack_after(frame, SubSeq(frame.stack, 1, Len(frame.stack) - 1),
                              frame.stack[Len(frame.stack)], found_offset(frame))]

\* One iteration of the loop, for a non-empty query.
expand(frame) ==
    [frame EXCEPT
        !.stack = stack_after(frame, SubSeq(frame.stack, 1, Len(frame.stack) - 1),
                              frame.stack[Len(frame.stack)], found_offset(frame)),
        !.remaining_loops = @ - 1]

\* A max() that keeps the pair it is given last.
keep_last(kept, pair) == pair

\* max(..., key=itemgetter(0)) taking one more pair: the first pair of the
\* greatest score is kept.
keep_max(kept, pair) ==
    IF kept = <<>> THEN pair
    ELSE IF pair[1] > kept[1] THEN pair ELSE kept

\* max(..., default=(0.0, ())) at the end of the generator.
max_or_default(kept) == IF kept = <<>> THEN NoMatch ELSE kept

\* The record of the pairs yielded: the first one of each score.
record_pair(seen, pair) ==
    IF \E other \in seen : other[1] = pair[1] THEN seen ELSE seen \cup {pair}

\* n times the character ch.
Repeat(ch, n) == [k \in 1..n |-> ch]

ShortRunLen == 4
LongRunLen == 30
QuotedQueryLen == 50
QuotedCandidateLen == 5000

\* Inputs on which the search has more alignments to complete than the loop
\* budget allows: a short one and the quoted one.
ShortLongSearch == << Repeat("a", ShortRunLen), Repeat("a", LongRunLen) >>
QuotedLongSearch ==
    << Repeat("a", QuotedQueryLen), Repeat("a", QuotedCandidateLen) >>

SearchInputs ==
    (Strings(MainChars, 0..MaxQueryLen) \X Strings(MainChars, 0..MaxCandLen))
    \cup {ShortLongSearch}

InitSearchOn(inputs) ==
    /\ cache = <<>>
    /\ \E input \in inputs : query = input[1] /\ candidate = input[2]
    /\ case_sensitive = FALSE
    /\ result = NoMatch
    /\ outcome = "none"
    /\ candidates = <<>>
    /\ search_string = <<>>
    /\ matches = <<>>
    /\ engine_calls = 0
    /\ SearchIdle
    /\ SharedIdle
    /\ PathIdle
    /\ WidgetIdle

InitSearch == InitSearchOn(SearchInputs)

InitQuoted == InitSearchOn(SearchInputs \cup {QuotedLongSearch})

\* FuzzySearch(case_sensitive=cs).match(query, candidate) up to the first
\* item max() asks the generator for.
CallMatch(cs) ==
    /\ outcome # "searching"
    /\ case_sensitive' = cs
    /\ UNCHANGED << query, candidate >>
    /\ UNCHANGED rankVars
    /\ UNCHANGED sharedVars
    /\ UNCHANGED pathVars
    /\ UNCHANGED widgetVars
    /\ IF ~RegexSearch(query, candidate, cs)
       THEN /\ result' = NoMatch
            /\ outcome' = "rejected"
            /\ UNCHANGED << cache, searchVars >>
       ELSE IF CacheHas(cache, CacheKey(query, candidate, cs))
       THEN /\ result' = CacheValue(cache, CacheKey(query, candidate, cs))
            /\ cache' = CacheTouch(cache, CacheKey(query, candidate, cs))
            /\ outcome' = "hit"
            /\ UNCHANGED searchVars
       ELSE /\ search' = start_search(query, candidate, cs)
            /\ best' = <<>>
            /\ pops' = 0
            /\ completed' = {}
            /\ group_counts' = {}
            /\ outcome' = "searching"
            /\ UNCHANGED << result, cache >>

\* One iteration of the loop of _match.  With an empty query the iteration
\* pops the initial search state and query[0] raises IndexError, which ends
\* the call.
Expand ==
    /\ outcome = "searching"
    /\ loop_continues(search)
    /\ pops' = pops + 1
    /\ UNCHANGED << query, candidate, case_sensitive, cache >>
    /\ UNCHANGED rankVars
    /\ UNCHANGED sharedVars
    /\ UNCHANGED pathVars
    /\ UNCHANGED widgetVars
    /\ IF search.query = <<>>
       THEN /\ result' = Raised
            /\ outcome' = "raised"
            /\ search' = NoSearch
            /\ UNCHANGED << best, completed, group_counts >>
       ELSE \E yields \in {yields_of(search, search.stack[Len(search.stack)],
                                     found_offset(search))} :
              /\ search' = expand(search)
              /\ best' = IF yields = <<>> THEN best
                         ELSE keep_max(best, yields[1])
              /\ completed' = IF yields = <<>> THEN completed
                              ELSE record_pair(completed, yields[1])
              /\ group_counts' = IF yields = <<>> THEN group_counts
                                 ELSE group_counts \cup {groups(yields[1][2])}
              /\ UNCHANGED << result, outcome >>

\* The loop of _match ends, max() returns, match stores and returns the
\* result.
Return ==
    /\ outcome = "searching"
    /\ ~loop_continues(search)
    /\ search' = [search EXCEPT !.remaining_loops = loops_after_test(search)]
    /\ result' = max_or_default(best)
    /\ cache' = CacheSet(cache, CacheKey(query, candidate, case_sensitive),
                         max_or_default(best))
    /\ outcome' = "miss"
    /\ UNCHANGED << query, candidate, case_sensitive, best, pops, completed,
                    group_counts >>
    /\ UNCHANGED rankVars
    /\ UNCHANGED sharedVars
    /\ UNCHANGED pathVars
    /\ UNCHANGED widgetVars

NextSearch ==
    \/ \E cs \in BOOLEAN : CallMatch(cs)
    \/ Expand
    \/ Return

SpecSearch == InitSearch /\ [][NextSearch]_vars

SpecQuoted == InitQuoted /\ [][NextSearch]_vars

\* An input whose candidate holds the query as a substring at its very end,
\* behind more alignments than the loop budget allows, among the calls for
\* queries and candidates of letters and hyphens.
LateSubstringSearch ==
    << Append(Repeat("a", ShortRunLen), "b"),
       Append(Repeat("a", LongRunLen), "b") >>

SubstringInputs ==
    (Strings({"a", "b", "-"}, 0..MaxQueryLen)
       \X Strings({"a", "b", "-"}, 0..MaxCandLen))
    \cup {LateSubstringSearch}

InitSubstring == InitSearchOn(SubstringInputs)

SpecSubstring == InitSubstring /\ [][NextSearch]_vars

\* The calls for queries and candidates in which a letter occurs in both
\* cases, so that a call can be rejected under one flag after the search has
\* run and stored its result under the other.
PrecheckChars == {"a", "A", "b"}

PrecheckInputs ==
    Strings(PrecheckChars, 0..MaxQueryLen)
       \X Strings(PrecheckChars, 0..MaxCandLen)

InitPrecheck == InitSearchOn(PrecheckInputs)

SpecPrecheck == InitPrecheck /\ [][NextSearch]_vars

(***************************************************************************)
(* Several FuzzySearch instances on the one cache of the class, called     *)
(* with queries that differ in letter case, and with the empty query.      *)
(***************************************************************************)
NumInstances == 2

\* FuzzySearch(case_sensitive=cs), told apart from the other instances.
Instance(id, cs) ==
    [id |-> id, case_sensitive |-> NewFuzzySearch(cs).case_sensitive]

Instances == {Instance(id, cs) : id \in 1..NumInstances, cs \in BOOLEAN}

CaseChars == {"a", "A"}

SharedQueries == {<<>>, <<"a">>, <<"A">>}

SharedCandidates == Strings(CaseChars, 0..MaxQueryLen)

InitShared ==
    /\ cache = <<>>
    /\ query = <<>>
    /\ candidate \in SharedCandidates
    /\ case_sensitive = FALSE
    /\ result = NoMatch
    /\ outcome = "none"
    /\ candidates = <<>>
    /\ search_string = <<>>
    /\ matches = <<>>
    /\ engine_calls = 0
    /\ SearchIdle
    /\ SharedIdle
    /\ PathIdle
    /\ WidgetIdle

\* The entries and who stored them, after self stored one under key.
stored_after(stored, key, self) ==
    {entry \in stored : entry[1] # key} \cup {<< key, self.id >>}

\* self.match(q, candidate), self being any of the instances
MatchOn(self, q) ==
    \E call \in {match(cache, self, q, candidate)} :
        /\ query' = q
        /\ case_sensitive' = self.case_sensitive
        /\ result' = call.result
        /\ outcome' = call.outcome
        /\ cache' = call.cache
        /\ caller' = self
        /\ stored_by' =
              IF call.outcome = "miss"
              THEN stored_after(stored_by,
                                CacheKey(q, candidate, self.case_sensitive), self)
              ELSE stored_by
        /\ UNCHANGED candidate
        /\ UNCHANGED rankVars
        /\ UNCHANGED searchVars
        /\ UNCHANGED widgetVars
        /\ UNCHANGED pathVars

NextShared == \E self \in Instances, q \in SharedQueries : MatchOn(self, q)

SpecShared == InitShared /\ [][NextShared]_vars

(***************************************************************************)
(* The AutoComplete widget on an Input (_autocomplete2.py): the events of  *)
(* the target it listens to, the completion, and the Input.Changed         *)
(* messages in flight.  A widget is the record of the fields the handlers  *)
(* read and write.                                                         *)
(***************************************************************************)
MaxValueLen == 2
MaxPending == 2

Min(a, b) == IF a <= b THEN a ELSE b

\* DropdownItem.__init__: the prompt of the option is the main text, after
\* the left_meta and a space when there is a left_meta that is not empty.
prompt(item) ==
    IF item.left_meta # None /\ item.left_meta.plain # <<>>
    THEN item.left_meta.plain \o <<" ">> \o item.main.plain
    ELSE item.main.plain

\* event.stop() and event.prevent_default()
stop_and_prevent_default(w) ==
    [w EXCEPT !.event.stopped = TRUE, !.event.prevented = TRUE]

action_hide(w) == [w EXCEPT !.display = FALSE]

action_show(w) == [w EXCEPT !.display = TRUE]

\* An assignment to Input.value that leaves the value as it is.
keep_value(w, text) == w

\* Input.value = text: a changed value posts Input.Changed, and the cursor
\* stays within the value.
set_value(w, text) ==
    IF text = w.value THEN w
    ELSE [w EXCEPT !.value = text,
                   !.cursor_position = Min(@, Len(text)),
                   !.pending = @ + 1]

\* The cursor after an insertion of text at position at.
cursor_after(w, at, text) == [w EXCEPT !.cursor_position = at + Len(text)]

\* Input.insert_text_at_cursor(text)
insert_text_at_cursor(w, text) ==
    cursor_after(
        set_value(w, SubSeq(w.value, 1, w.cursor_position) \o text
                       \o SubSeq(w.value, w.cursor_position + 1, Len(w.value))),
        w.cursor_position, text)

\* Input.action_delete_left: the character before the cursor goes.
delete_left(w) ==
    IF w.cursor_position = 0 THEN w
    ELSE [set_value(w, SubSeq(w.value, 1, w.cursor_position - 1)
                         \o SubSeq(w.value, w.cursor_position + 1, Len(w.value)))
            EXCEPT !.cursor_position = w.cursor_position - 1]

\* AutoComplete._get_target_state, for an Input
get_target_state(w) == TargetState(w.value, w.cursor_position)

\* AutoComplete.get_search_string, for an Input and no search_string callable
get_search_string(state) == state.text

\* AutoComplete.should_show_dropdown
should_show_dropdown(w, s) ==
    IF Len(s) = 0 \/ Len(w.options) = 0 THEN FALSE
    ELSE IF Len(w.options) = 1
    THEN Lower(prompt(w.options[1])) # Lower(s)
    ELSE TRUE

\* OptionList.clear_options
clear_options(w) == [w EXCEPT !.options = <<>>, !.option_highlighted = <<>>]

\* _rebuild_options, from the call of get_matches on: add_options and
\* highlighted = 0 when there are matches.
with_matches(w, call) ==
    IF call.matches # <<>>
    THEN [w EXCEPT !.options = call.matches, !.option_highlighted = << 0 >>,
                   !.cache = call.cache]
    ELSE [w EXCEPT !.cache = call.cache]

\* AutoComplete._rebuild_options; _compute_matches gives get_matches the
\* candidate list of the widget.
rebuild_options(w, state, s) ==
    IF w.has_focus
    THEN with_matches(clear_options(w), get_matches(w.cache, candidates, s))
    ELSE clear_options(w)

\* _handle_target_update, its last lines: after a completion the dropdown is
\* hidden and the mark is taken back.
after_completion_mark(w) ==
    IF w.last_action_was_completion
    THEN action_hide([w EXCEPT !.last_action_was_completion = FALSE])
    ELSE w

\* _handle_target_update, from the search string on.
update_for(w, s) ==
    after_completion_mark(
        IF should_show_dropdown(w, s) /\ ~w.last_action_was_completion
        THEN rebuild_options(action_show(w), w.target_state, s)
        ELSE action_hide(w))

\* The widget with the state of the target read into _target_state.
target_read(w) == [w EXCEPT !.target_state = get_target_state(w)]

\* AutoComplete._handle_target_update
handle_target_update(w) ==
    update_for(target_read(w), get_search_string(get_target_state(w)))

\* AutoComplete._handle_focus_change
handle_focus_change(w, focused) ==
    IF ~focused THEN action_hide(w)
    ELSE rebuild_options(w, w.target_state, get_search_string(w.target_state))

\* A guard of _complete that does not look at the dropdown.
completes_always(w) == w.options # <<>>

\* _complete goes on unless: not self.display or option_count == 0
completes(w) == w.display /\ w.options # <<>>

\* AutoComplete._complete(option_index), for an Input and no
\* completion_strategy
complete(w, option_index) ==
    IF ~completes(w) THEN w
    ELSE action_hide(
             [insert_text_at_cursor(set_value(w, <<>>),
                                    w.options[option_index + 1].main.plain)
                EXCEPT !.last_action_was_completion = TRUE])

\* The default of a stop that does not look at the flag.
stops_when_displayed(flag, displayed) == displayed

\* if self.prevent_default_enter and displayed (and the same for tab)
stops(flag, displayed) == flag /\ displayed

\* A step down the list that stays on the last option.
next_or_last(current, option_count) ==
    Min(current + 1, option_count - 1)

\* (highlighted + 1) % option_list.option_count
next_highlighted(current, option_count) ==
    (current + 1) % option_count

\* (highlighted - 1) % option_list.option_count
previous_highlighted(current, option_count) ==
    (current - 1) % option_count

\* option_list.highlighted or 0
highlighted_or_0(w) ==
    IF w.option_highlighted = <<>> THEN 0 ELSE w.option_highlighted[1]

\* A test of the only option that never holds.
never_the_search_string(w) == FALSE

\* The list has one option and its text is the search string.
only_option_is_search_string(w) ==
    /\ Len(w.options) = 1
    /\ prompt(w.options[1]) = get_search_string(get_target_state(w))

\* _listen_to_messages, the "down" key on an Input.
key_down(w, displayed, current) ==
    IF only_option_is_search_string(w) THEN w
    ELSE [stop_and_prevent_default(w) EXCEPT
            !.display = TRUE,
            !.option_highlighted =
                << IF ~displayed THEN 0
                   ELSE next_highlighted(current, Len(w.options)) >>]

\* _listen_to_messages, the "up" key.
key_up(w, displayed, current) ==
    IF displayed
    THEN [stop_and_prevent_default(w) EXCEPT
            !.option_highlighted =
                << previous_highlighted(current, Len(w.options)) >>]
    ELSE w

\* _listen_to_messages, the "enter" and "tab" keys, flag being
\* prevent_default_enter or prevent_default_tab.
key_complete(w, flag, displayed, current) ==
    complete(IF stops(flag, displayed) THEN stop_and_prevent_default(w) ELSE w,
             current)

\* An escape key that hides nothing.
key_escape_ignored(w) == w

\* _listen_to_messages, the "escape" key.
key_escape(w) == action_hide(w)

\* AutoComplete._listen_to_messages for a key event of the target: nothing is
\* done for a key when the list has no options, or for another key.
listen_to_messages(w, key) ==
    IF w.options = <<>> THEN w
    ELSE IF key = "down" THEN key_down(w, w.display, highlighted_or_0(w))
    ELSE IF key = "up" THEN key_up(w, w.display, highlighted_or_0(w))
    ELSE IF key = "enter"
    THEN key_complete(w, prevent_default_enter, w.display, highlighted_or_0(w))
    ELSE IF key = "tab"
    THEN key_complete(w, prevent_default_tab, w.display, highlighted_or_0(w))
    ELSE IF key = "escape" THEN key_escape(w)
    ELSE w

\* Input.action_cursor_left: the cursor moves one cell towards the start; the
\* value stays, and no Input.Changed is posted.
cursor_left(w) ==
    [w EXCEPT !.cursor_position = IF @ = 0 THEN 0 ELSE @ - 1]

\* What the target and the application do with a key whose default was not
\* prevented: a character is inserted at the cursor, backspace deletes the
\* character before it, tab moves the focus to the next widget (the change
\* of has_focus calls _handle_focus_change), left moves the cursor; the other
\* keys change nothing of the state.
default_of(w, key) ==
    IF w.event.prevented THEN w
    ELSE IF key \in MainChars THEN insert_text_at_cursor(w, << key >>)
    ELSE IF key = "backspace" THEN delete_left(w)
    ELSE IF key = "tab"
    THEN handle_focus_change([w EXCEPT !.has_focus = FALSE], FALSE)
    ELSE IF key = "left" THEN cursor_left(w)
    ELSE w

Keys == MainChars \cup {"backspace", "down", "up", "enter", "tab", "escape"}

\* The widget and its target as they are.
Widget ==
    [value |-> value, cursor_position |-> cursor_position,
     has_focus |-> has_focus, display |-> display, options |-> options,
     option_highlighted |-> option_highlighted,
     last_action_was_completion |-> last_action_was_completion,
     target_state |-> target_state, pending |-> pending, cache |-> cache,
     event |-> event]

\* The widget and its target become w.
Becomes(w) ==
    /\ Len(w.value) <= MaxValueLen
    /\ w.pending <= MaxPending
    /\ value' = w.value
    /\ cursor_position' = w.cursor_position
    /\ has_focus' = w.has_focus
    /\ display' = w.display
    /\ options' = w.options
    /\ option_highlighted' = w.option_highlighted
    /\ last_action_was_completion' = w.last_action_was_completion
    /\ target_state' = w.target_state
    /\ pending' = w.pending
    /\ cache' = w.cache
    /\ event' = w.event
    /\ completion_performed'
         = (completion_performed \/ w.last_action_was_completion)
    /\ settling' = IF w.event.key \in {"enter", "tab", "click"}
                        /\ completes(Widget)
                   THEN pending = 0
                   ELSE w.event.key = "Changed" /\ settling
    /\ typed_ahead' = IF w.event.key \in {"enter", "tab", "click"}
                           /\ completes(Widget)
                      THEN pending
                      ELSE IF w.event.key = "Changed" /\ typed_ahead > 0
                      THEN typed_ahead - 1
                      ELSE typed_ahead
    /\ UNCHANGED << prevent_default_enter, prevent_default_tab >>
    /\ UNCHANGED << query, candidate, case_sensitive, result, outcome >>
    /\ UNCHANGED rankVars
    /\ UNCHANGED searchVars
    /\ UNCHANGED sharedVars
    /\ UNCHANGED pathVars

\* The candidate lists the widget is given: none, two candidates of one
\* character, and three of which the last holds the two others.
WidgetMains ==
    { <<>>,
      << <<"b">>, <<"a">> >>,
      << <<"a">>, <<"b">>, <<"a", "b">> >> }

\* After on_mount: the subscription to has_focus has hidden the dropdown, and
\* _handle_target_update has read the empty Input.  The widget has one of the
\* given candidate lists, and its two flags are among the given ones.
InitWidgetOn(lists, flags) ==
    /\ cache = <<>>
    /\ query = <<>>
    /\ candidate = <<>>
    /\ case_sensitive = FALSE
    /\ result = NoMatch
    /\ outcome = "none"
    /\ \E mains \in lists : candidates = CandidateList(mains)
    /\ search_string = <<>>
    /\ matches = <<>>
    /\ engine_calls = 0
    /\ SearchIdle
    /\ SharedIdle
    /\ PathIdle
    /\ value = <<>>
    /\ cursor_position = 0
    /\ has_focus = FALSE
    /\ display = FALSE
    /\ options = <<>>
    /\ option_highlighted = <<>>
    /\ last_action_was_completion = FALSE
    /\ target_state = TargetState(<<>>, 0)
    /\ pending = 0
    /\ prevent_default_enter \in flags
    /\ prevent_default_tab \in flags
    /\ event = Event("none")
    /\ completion_performed = FALSE
    /\ settling = FALSE
    /\ typed_ahead = 0

InitWidget == InitWidgetOn(WidgetMains, BOOLEAN)

\* A key event of the focused target: _listen_to_messages sees it first, then
\* its default runs unless prevented.
Key(key) ==
    /\ has_focus
    /\ \E w \in {default_of(listen_to_messages(
                                [Widget EXCEPT !.event = Event(key)], key),
                            key)} :
          Becomes(w)

\* A click on the option at index: OptionList highlights and selects an
\* option that is not disabled, and _apply_completion completes with it.
Click(index) ==
    /\ display
    /\ index < Len(options)
    /\ ~options[index + 1].disabled
    /\ \E w \in {complete([Widget EXCEPT !.event = Event("click"),
                                         !.option_highlighted = << index >>],
                          index)} :
          Becomes(w)

\* The oldest Input.Changed in flight reaches _listen_to_messages.
Changed ==
    /\ pending > 0
    /\ \E w \in {handle_target_update(
                    [Widget EXCEPT !.event = Event("Changed"),
                                   !.pending = @ - 1])} :
          Becomes(w)

\* The target gets the focus.
Focus ==
    /\ ~has_focus
    /\ \E w \in {handle_focus_change(
                    [Widget EXCEPT !.event = Event("focus"),
                                   !.has_focus = TRUE], TRUE)} :
          Becomes(w)

\* The target loses the focus.
Blur ==
    /\ has_focus
    /\ \E w \in {handle_focus_change(
                    [Widget EXCEPT !.event = Event("blur"),
                                   !.has_focus = FALSE], FALSE)} :
          Becomes(w)

NextWidget ==
    \/ \E key \in Keys : Key(key)
    \/ \E index \in 0..(MaxItems - 1) : Click(index)
    \/ Changed
    \/ Focus
    \/ Blur

SpecWidget == InitWidget /\ [][NextWidget]_vars

(***************************************************************************)
(* The same widget on an Input whose cursor the user moves with the left   *)
(* key, as in the CursorTracking application of the tests.                 *)
(***************************************************************************)
\* The candidates: "b", "ba" and "a".
CursorMains == << <<"b">>, <<"b", "a">>, <<"a">> >>

InitCursor == InitWidgetOn({CursorMains}, {TRUE})

NextCursor ==
    \/ \E key \in Keys \cup {"left"} : Key(key)
    \/ \E index \in 0..(MaxItems - 1) : Click(index)
    \/ Changed
    \/ Focus
    \/ Blur

SpecCursor == InitCursor /\ [][NextCursor]_vars

(***************************************************************************)
(* The same widget with a candidate in upper case, which a search string   *)
(* in lower case matches.                                                  *)
(***************************************************************************)
\* The candidates: "b" and "A".
CaseMains == << <<"b">>, <<"A">> >>

InitCase == InitWidgetOn({CaseMains}, {TRUE})

SpecCase == InitCase /\ [][NextWidget]_vars

(***************************************************************************)
(* PathAutoComplete (_path_autocomplete.py): get_search_string and         *)
(* apply_completion, called with the state of the target Input.            *)
(***************************************************************************)
MaxPathLen == 4

PathChars == {"a", "/"}

\* The completion values: names of files, and names of directories, which
\* get_candidates ends with "/".
PathCompletions == { <<>>, <<"a">>, <<"b">>, <<"a", "/">> }

\* A state object that has the attribute cursor_position, which the methods
\* of PathAutoComplete read.
StateWithCursor(text, cursor) == [text |-> text, cursor_position |-> cursor]

\* The state objects the methods are given for a target: the TargetState of
\* _autocomplete2.py, which has the attributes text and selection, and a
\* state that has text and cursor_position.
PathStates(text, cursor) ==
    { TargetState(text, cursor), StateWithCursor(text, cursor) }

\* state.cursor_position can be read; AttributeError is raised otherwise.
has_cursor_position(state) == "cursor_position" \in DOMAIN state

\* text[:end]
slice_to(text, end) == SubSeq(text, 1, Min(end, Len(text)))

\* text[start:]
slice_from(text, start) == SubSeq(text, start + 1, Len(text))

\* "/" in text
has_slash(text) == \E p \in 1..Len(text) : text[p] = "/"

\* text.rindex("/"), for a text that has a "/": the offset of the last one.
rindex(text) ==
    CHOOSE p \in 0..(Len(text) - 1) :
        /\ text[p + 1] = "/"
        /\ \A r \in (p + 1)..(Len(text) - 1) : text[r + 1] # "/"

\* PathAutoComplete.get_search_string(target_state): what it returns, or
\* that it raises.
path_get_search_string(state) ==
    IF ~has_cursor_position(state)
    THEN [raised |-> TRUE, search_string |-> <<>>]
    ELSE IF has_slash(slice_to(state.text, state.cursor_position))
    THEN [raised |-> FALSE,
          search_string |->
              slice_from(slice_to(state.text, state.cursor_position),
                         rindex(slice_to(state.text, state.cursor_position)) + 1)]
    ELSE [raised |-> FALSE,
          search_string |-> slice_to(state.text, state.cursor_position)]

\* new_value of apply_completion: current_input.rindex("/", 0,
\* cursor_position) raises ValueError when there is no "/" before the cursor.
new_value(completion, current_input, cursor) ==
    IF ~has_slash(slice_to(current_input, cursor)) THEN completion
    ELSE slice_to(current_input, rindex(slice_to(current_input, cursor)) + 1)
           \o completion

\* PathAutoComplete.apply_completion(value, state): the value and the cursor
\* of the target afterwards, or that it raises and leaves the target.  In
\* both branches new_cursor_position is the length of new_value.
path_apply_completion(target, completion, state) ==
    IF ~has_cursor_position(state)
    THEN [raised |-> TRUE, value |-> target.value,
          cursor_position |-> target.cursor_position]
    ELSE [raised |-> FALSE,
          value |-> new_value(completion, state.text, state.cursor_position),
          cursor_position |->
              Len(new_value(completion, state.text, state.cursor_position))]

\* A PathAutoComplete on an Input that holds a path, the cursor anywhere in
\* it.
InitPath ==
    /\ cache = <<>>
    /\ query = <<>>
    /\ candidate = <<>>
    /\ case_sensitive = FALSE
    /\ result = NoMatch
    /\ outcome = "none"
    /\ candidates = <<>>
    /\ search_string = <<>>
    /\ matches = <<>>
    /\ engine_calls = 0
    /\ SearchIdle
    /\ SharedIdle
    /\ PathIdle
    /\ value \in Strings(PathChars, 0..MaxPathLen)
    /\ cursor_position \in 0..Len(value)
    /\ has_focus = TRUE
    /\ display = FALSE
    /\ options = <<>>
    /\ option_highlighted = <<>>
    /\ last_action_was_completion = FALSE
    /\ target_state = TargetState(<<>>, 0)
    /\ pending = 0
    /\ prevent_default_enter = TRUE
    /\ prevent_default_tab = TRUE
    /\ event = Event("none")
    /\ completion_performed = FALSE
    /\ settling = FALSE
    /\ typed_ahead = 0

\* What the calls of the two methods leave alone.  Input.Changed is
\* prevented while apply_completion sets the value, so none is posted.
PathFrame ==
    /\ UNCHANGED << cache, query, candidate, case_sensitive, result >>
    /\ UNCHANGED << candidates, matches, engine_calls >>
    /\ UNCHANGED searchVars
    /\ UNCHANGED sharedVars
    /\ UNCHANGED << has_focus, display, options, option_highlighted,
                    last_action_was_completion, pending,
                    prevent_default_enter, prevent_default_tab, event,
                    completion_performed, settling, typed_ahead >>
    /\ UNCHANGED dirVars

\* get_search_string(state), state being the state of the target
GetSearchString(state) ==
    \E call \in {path_get_search_string(state)} :
        /\ called' = Call("get_search_string", <<>>)
        /\ target_state' = state
        /\ outcome' = IF call.raised THEN "raised" ELSE "returned"
        /\ search_string' = IF call.raised THEN search_string
                            ELSE call.search_string
        /\ UNCHANGED << value, cursor_position >>
        /\ PathFrame

\* apply_completion(completion, state), state being the state of the target
ApplyCompletion(completion, state) ==
    \E call \in {path_apply_completion(
                    [value |-> value, cursor_position |-> cursor_position],
                    completion, state)} :
        /\ Len(call.value) <= MaxPathLen
        /\ called' = Call("apply_completion", completion)
        /\ target_state' = state
        /\ outcome' = IF call.raised THEN "raised" ELSE "applied"
        /\ value' = call.value
        /\ cursor_position' = call.cursor_position
        /\ UNCHANGED search_string
        /\ PathFrame

NextPath ==
    \E state \in PathStates(value, cursor_position) :
        \/ GetSearchString(state)
        \/ \E completion \in PathCompletions : ApplyCompletion(completion, state)

SpecPath == InitPath /\ [][NextPath]_vars

(***************************************************************************)
(* PathAutoComplete.get_candidates and clear_directory_cache: the          *)
(* directory cache.  A directory is named by str(directory), the cache     *)
(* key; self.path is ".".                                                  *)
(***************************************************************************)
\* cache_size of __init__: the number of directories the cache holds.
cache_size == 2

\* show_dotfiles of __init__, at its default.
show_dotfiles == TRUE

\* str(self.path)
SelfPath == << "." >>

\* The directories the texts of the model lead to.
Directories == { SelfPath, << "a" >>, << "b" >> }

\* The texts get_candidates is given: path segments of one name, for which
\* str(self.path / path_segment) is the path segment.
DirTexts ==
    { <<>>, << "/" >>, << "a", "/" >>, << "b", "/" >>, << "a", "/", "a" >> }

\* os.DirEntry: name and is_dir()
DirEntry(name, is_dir) == [name |-> name, is_dir |-> is_dir]

\* What a directory may hold, in the order os.scandir gives it.
Listings ==
    { <<>>, << DirEntry(<< "b" >>, FALSE), DirEntry(<< "a" >>, TRUE) >> }

\* list(os.scandir(directory)): the entries, or OSError.
Scanned(entries) == [error |-> FALSE, entries |-> entries]
OSError == [error |-> TRUE, entries |-> <<>>]
ScanOutcomes == { OSError } \cup { Scanned(entries) : entries \in Listings }

\* str(directory) for current_input
cache_key(current_input) ==
    IF has_slash(current_input)
    THEN IF slice_to(current_input, rindex(current_input)) = <<>>
         THEN SelfPath
         ELSE slice_to(current_input, rindex(current_input))
    ELSE SelfPath

\* self._directory_cache[cache_key] = entries, for a key that is not in the
\* cache: the least recently used entry is evicted when the cache is full.
DirCacheSet(c, key, entries) ==
    LET added == Append(c, [key |-> key, value |-> entries])
    IN  IF Len(added) > cache_size THEN Tail(added) ELSE added

\* The loop over entries: the completions, a directory's ending with "/".
RECURSIVE path_results(_)
path_results(entries) ==
    IF entries = <<>> THEN <<>>
    ELSE IF ~show_dotfiles /\ Head(entries).name[1] = "."
    THEN path_results(Tail(entries))
    ELSE << IF Head(entries).is_dir
            THEN Append(Head(entries).name, "/")
            ELSE Head(entries).name >>
         \o path_results(Tail(entries))

\* What a call of get_candidates comes to.
CandidatesCall(raised, items, c, scans) ==
    [raised |-> raised, candidates |-> items, cache |-> c, scanned |-> scans]

\* The return statement: DropdownItem(item.main, prefix=...) for each
\* result.  DropdownItem.__init__ takes main, left_meta, id and disabled, so
\* the first result raises TypeError; no result, and [] is returned.
path_return(entries, c, scans) ==
    IF path_results(entries) = <<>>
    THEN CandidatesCall("none", <<>>, c, scans)
    ELSE CandidatesCall("TypeError", <<>>, c, scans)

\* PathAutoComplete.get_candidates(target_state) on the cache c and the file
\* system fs: what it returns or raises, the cache afterwards and the
\* directories it scanned.
path_get_candidates(state, c, fs) ==
    IF ~has_cursor_position(state)
    THEN CandidatesCall("AttributeError", <<>>, c, <<>>)
    ELSE LET key == cache_key(slice_to(state.text, state.cursor_position))
         IN  IF CacheHas(c, key)
             THEN path_return(CacheValue(c, key), CacheTouch(c, key), <<>>)
             ELSE IF fs[key].error
             THEN CandidatesCall("none", <<>>, c, << key >>)
             ELSE path_return(fs[key].entries,
                              DirCacheSet(c, key, fs[key].entries),
                              << key >>)

\* PathAutoComplete.clear_directory_cache() for the state of the target:
\* the cache is cleared, then _rebuild_options is given the search string.
\* _rebuild_options clears the options first, and asks get_candidates only
\* when the target has the focus; candidates that are [] make no option.
Cleared(raised, c, scans, opts) ==
    [raised |-> raised, cache |-> c, scanned |-> scans, options |-> opts]

clear_directory_cache(state, fs, focus, opts) ==
    IF path_get_search_string(state).raised
    THEN Cleared("AttributeError", <<>>, <<>>, opts)
    ELSE IF ~focus
    THEN Cleared("none", <<>>, <<>>, <<>>)
    ELSE LET got == path_get_candidates(state, <<>>, fs)
         IN  Cleared(got.raised, got.cache, got.scanned, <<>>)

\* A PathAutoComplete on an Input that holds a path, with directories that
\* hold anything or cannot be read.
InitDirectory ==
    /\ cache = <<>>
    /\ query = <<>>
    /\ candidate = <<>>
    /\ case_sensitive = FALSE
    /\ result = NoMatch
    /\ outcome = "none"
    /\ candidates = <<>>
    /\ search_string = <<>>
    /\ matches = <<>>
    /\ engine_calls = 0
    /\ SearchIdle
    /\ SharedIdle
    /\ called = Call("none", <<>>)
    /\ directory_cache = <<>>
    /\ file_system \in [Directories -> ScanOutcomes]
    /\ scanned = <<>>
    /\ returned = NothingReturned
    /\ value \in DirTexts
    /\ cursor_position = Len(value)
    /\ has_focus = TRUE
    /\ display = FALSE
    /\ options = <<>>
    /\ option_highlighted = <<>>
    /\ last_action_was_completion = FALSE
    /\ target_state = TargetState(<<>>, 0)
    /\ pending = 0
    /\ prevent_default_enter = TRUE
    /\ prevent_default_tab = TRUE
    /\ event = Event("none")
    /\ completion_performed = FALSE
    /\ settling = FALSE
    /\ typed_ahead = 0

\* What the calls of the two methods leave alone.
DirectoryFrame ==
    /\ UNCHANGED << cache, query, candidate, case_sensitive, result >>
    /\ UNCHANGED << candidates, search_string, matches, engine_calls >>
    /\ UNCHANGED searchVars
    /\ UNCHANGED sharedVars
    /\ UNCHANGED << value, cursor_position, has_focus, display,
                    option_highlighted, last_action_was_completion, pending,
                    prevent_default_enter, prevent_default_tab, event,
                    completion_performed, settling, typed_ahead >>

\* get_candidates(state)
GetCandidates(state) ==
    \E call \in {path_get_candidates(state, directory_cache, file_system)} :
        /\ called' = Call("get_candidates", <<>>)
        /\ target_state' = state
        /\ outcome' = IF call.raised = "none" THEN "returned" ELSE "raised"
        /\ directory_cache' = call.cache
        /\ scanned' = call.scanned
        /\ returned' = ReturnValue(call.raised, call.candidates)
        /\ UNCHANGED << file_system, options >>
        /\ DirectoryFrame

\* clear_directory_cache(): the state is the one _get_target_state builds.
ClearDirectoryCache ==
    \E call \in {clear_directory_cache(TargetState(value, cursor_position),
                                       file_system, has_focus, options)} :
        /\ called' = Call("clear_directory_cache", <<>>)
        /\ outcome' = IF call.raised = "none" THEN "returned" ELSE "raised"
        /\ directory_cache' = call.cache
        /\ scanned' = call.scanned
        /\ options' = call.options
        /\ UNCHANGED << file_system, returned, target_state >>
        /\ DirectoryFrame

\* The contents of a directory change, or it can no longer be read, or it
\* can be read again.
DirectoryChanges(directory, scan) ==
    /\ file_system[directory] # scan
    /\ file_system' = [file_system EXCEPT ![directory] = scan]
    /\ UNCHANGED << called, directory_cache, scanned, returned, outcome,
                    target_state, options >>
    /\ DirectoryFrame

NextDirectory ==
    \/ \E text \in DirTexts : \E cursor \in 0..Len(text) :
           \E state \in PathStates(text, cursor) : GetCandidates(state)
    \/ ClearDirectoryCache
    \/ \E directory \in Directories : \E scan \in ScanOutcomes :
           DirectoryChanges(directory, scan)

SpecDirectory == InitDirectory /\ [][NextDirectory]_vars

(***************************************************************************)
(* Notions the claims are stated in.                                       *)
(***************************************************************************)
RECURSIVE IsSubsequence(_, _)
IsSubsequence(q, c) ==
    IF q = <<>> THEN TRUE
    ELSE IF c = <<>> THEN FALSE
    ELSE IF Head(q) = Head(c) THEN IsSubsequence(Tail(q), Tail(c))
    ELSE IsSubsequence(q, Tail(c))

\* q is a subsequence of c, the characters compared as the flag says.
SubsequenceUnder(q, c, cs) ==
    IF cs THEN IsSubsequence(q, c) ELSE IsSubsequence(Lower(q), Lower(c))

Returned == outcome \in {"rejected", "hit", "miss"}

\* C1: for a non-empty query that is not a subsequence of the candidate
\* (ignoring case when the call is not case sensitive), match returns exactly
\* (0.0, ()).
C1_NoSubsequenceNoMatch ==
    (Returned /\ query # <<>>
        /\ ~SubsequenceUnder(query, candidate, case_sensitive))
    => result = << 0, <<>> >>

\* A case-sensitive call whose query occurs in the candidate only in the
\* other case, and a call whose query's characters occur in the wrong order.
C1_Witness ==
    /\ Returned
    /\ result = << 0, <<>> >>
    /\ \/ (case_sensitive /\ query = <<"A">> /\ candidate = <<"a">>)
       \/ (query = <<"b", "a">> /\ candidate = <<"a", "b">>)

Matched == outcome \in {"hit", "miss"} /\ result[1] > 0

StrictlyIncreasing(offsets) ==
    \A k \in 2..Len(offsets) : offsets[k - 1] < offsets[k]

\* C2: the offsets returned with a score > 0 are a subsequence alignment of
\* the query in the candidate: one offset for each character of the query,
\* strictly increasing, each an offset of the candidate, and the candidate's
\* character there is the query's character (both lower-cased when the call
\* is not case sensitive), for computed and for cached results.
C2_OffsetsAlignQuery ==
    Matched =>
        LET offsets == result[2]
        IN  /\ Len(offsets) = Len(query)
            /\ StrictlyIncreasing(offsets)
            /\ \A k \in 1..Len(offsets) :
                  /\ 0 <= offsets[k]
                  /\ offsets[k] < Len(candidate)
                  /\ IF case_sensitive
                     THEN candidate[offsets[k] + 1] = query[k]
                     ELSE LowerChar(candidate[offsets[k] + 1])
                            = LowerChar(query[k])

\* The start offsets of the contiguous occurrences of q in c.
Occurrences(q, c) ==
    {p \in 0..(Len(c) - Len(q)) : SubSeq(c, p + 1, p + Len(q)) = q}

IsSubstring(q, c) == Occurrences(q, c) # {}

ContiguousRun(offsets) ==
    \A k \in 2..Len(offsets) : offsets[k] = offsets[k - 1] + 1

\* The strings the search works on.
Searched(s, cs) == IF cs THEN s ELSE Lower(s)

\* How many of the offsets are word starts of the searched candidate.
WordStartHits(offsets, c) ==
    Cardinality(first_letters(c) \cap {offsets[k] : k \in 1..Len(offsets)})

Fresh(q, c, cs) ==
    IF RegexSearch(q, c, cs) THEN compute(q, c, cs) ELSE NoMatch

AllQueries == {input[1] : input \in Inputs} \ {<<>>}
AllCandidates == {input[2] : input \in Inputs}

\* For a query and a flag: <<word-start hits, score>> of every alignment of
\* the query against a candidate in which the query occurs only scattered
\* (as a subsequence, nowhere as a contiguous substring).
ScatteredAlignments ==
    [q \in AllQueries, cs \in BOOLEAN |->
        UNION { LET yielded == match_yields(q, c, cs)
                IN  { << WordStartHits(yielded[k][2], Searched(c, cs)),
                         yielded[k][1] >> : k \in 1..Len(yielded) }
                : c \in {d \in AllCandidates :
                            /\ RegexSearch(q, d, cs)
                            /\ ~IsSubstring(Searched(q, cs), Searched(d, cs))} }]

C5_CacheInvisible ==
    Returned => result = Fresh(query, candidate, case_sensitive)

\* A result computed again after its entry was evicted: the call finds no
\* entry for its key in a cache at capacity that held one at the start, and
\* the entry stored for the other case flag, which evicted it, is a
\* different result.
C5_Witness ==
    /\ outcome = "miss"
    /\ ~case_sensitive
    /\ result[1] > 0
    /\ Len(cache) = cache_maxsize
    /\ cache[Len(cache)].key = << query, candidate, FALSE >>
    /\ cache[Len(cache) - 1].key = << query, candidate, TRUE >>
    /\ cache[Len(cache) - 1].value # result

\* The query's characters occur in the candidate, but none in the same case.
OnlyInOtherCase(q, c) ==
    /\ IsSubsequence(Lower(q), Lower(c))
    /\ \A k \in 1..Len(q) : \A j \in 1..Len(c) : q[k] # c[j]

\* C6: a call that is not case sensitive returns the score and offsets of a
\* case-sensitive match of lower(query) against lower(candidate), so that
\* "ABC" matches "xxabcxx"; a case-sensitive call whose query's characters
\* occur in the candidate only in the other case returns (0.0, ()).
C6_CaseHandling ==
    (Returned /\ query # <<>>)
    => /\ ~case_sensitive
            => result = Fresh(Lower(query), Lower(candidate), TRUE)
       /\ (~case_sensitive /\ query = <<"A", "B", "C">>
             /\ candidate = <<"x", "x", "a", "b", "c", "x", "x">>)
            => result[1] > 0
       /\ (case_sensitive /\ OnlyInOtherCase(query, candidate))
            => result = << 0, <<>> >>

Ranked == outcome = "returned" /\ search_string # <<>>

\* The score of the candidate at position k for the search string.
ScoreOf(k) == Fresh(search_string, candidates[k].main.plain, FALSE)[1]

\* The positions of the returned list that hold the candidate of position k
\* (a candidate's id is its position in the candidate list).
ReturnedAt(k) == {j \in 1..Len(matches) : matches[j].id = k}

\* C8: for a non-empty search string, get_matches returns exactly one item
\* for each candidate whose score is > 0 and none for a candidate whose score
\* is 0.0, and each returned item keeps the candidate's plain main text,
\* left_meta, id and disabled flag.
C8_ExactlyTheMatchingCandidates ==
    Ranked =>
        /\ \A k \in 1..Len(candidates) :
              Cardinality(ReturnedAt(k)) = IF ScoreOf(k) > 0 THEN 1 ELSE 0
        /\ \A j \in 1..Len(matches) :
              /\ matches[j].id \in 1..Len(candidates)
              /\ matches[j].main.plain = candidates[matches[j].id].main.plain
              /\ matches[j].left_meta = candidates[matches[j].id].left_meta
              /\ matches[j].disabled = candidates[matches[j].id].disabled

\* A ranking that keeps one candidate and drops another, the kept one
\* disabled and highlighted.
C8_Witness ==
    /\ Ranked
    /\ \E k \in 1..Len(candidates) : ScoreOf(k) = 0
    /\ \E j \in 1..Len(matches) :
          /\ matches[j].disabled
          /\ matches[j].main.highlighted # {}
          /\ ScoreOf(matches[j].id) > 0

\* C9: the list returned for a non-empty search string is ordered by
\* non-increasing score, and two candidates of equal score keep the relative
\* order they have in the candidate list.
C9_DescendingAndStable ==
    Ranked =>
        \A i, j \in 1..Len(matches) :
            i < j =>
                \/ ScoreOf(matches[i].id) > ScoreOf(matches[j].id)
                \/ /\ ScoreOf(matches[i].id) = ScoreOf(matches[j].id)
                   /\ matches[i].id < matches[j].id

\* A ranking of three candidates: the first of the list has the lowest score
\* and is returned last, the other two tie and keep their order.
C9_Witness ==
    /\ Ranked
    /\ Len(matches) = 3
    /\ << matches[1].id, matches[2].id, matches[3].id >> = << 2, 3, 1 >>
    /\ ScoreOf(2) = ScoreOf(3)
    /\ ScoreOf(3) > ScoreOf(1)

\* C10: a call of get_matches with the empty search string returns the
\* candidates in their order, calls the engine not once and leaves the cache
\* as it was.
C10_EmptySearchBypassesEngine ==
    [][search_string' = <<>> =>
          /\ outcome' = "returned"
          /\ matches' = candidates
          /\ engine_calls' = 0
          /\ cache' = cache]_vars

\* The candidates returned as they are, among them one that nothing
\* matches, after an earlier ranking has filled the cache.
C10_Witness ==
    /\ search_string = <<>>
    /\ outcome = "returned"
    /\ engine_calls = 0
    /\ cache # <<>>
    /\ Len(matches) >= 2
    /\ matches = candidates
    /\ \E k \in 1..Len(candidates) : candidates[k].main.plain = <<>>

(***************************************************************************)
(* The loop budget of _match.                                              *)
(***************************************************************************)
\* C11: for every non-empty query and candidate the branching search ends
\* after at most 10,000 pops: while it runs, the loop budget left is at
\* least 1 and, with the pops made, adds up to 10,000, and every step of a
\* running search is one pop that takes one from the budget, or the end of
\* the search; also for 50 times "a" against 5,000 times "a".
C11_SearchWithinLoopBudget ==
    /\ [](/\ pops <= 10000
          /\ (outcome = "searching" /\ query # <<>>)
               => /\ search.remaining_loops >= 1
                  /\ pops + search.remaining_loops = 10000)
    /\ [][(outcome = "searching" /\ query # <<>>)
            => \/ /\ outcome' = "searching"
                  /\ pops' = pops + 1
                  /\ search'.remaining_loops = search.remaining_loops - 1
               \/ /\ outcome' = "miss"
                  /\ pops' = pops]_vars

\* A search ended by the budget with search states left on its stack.
C11_Witness ==
    /\ outcome = "miss"
    /\ << query, candidate >> = ShortLongSearch
    /\ pops = 9999
    /\ search.remaining_loops = 0
    /\ search.stack # <<>>

\* The call has returned because the loop budget ran out.
Truncated ==
    /\ outcome = "miss"
    /\ search.remaining_loops = 0
    /\ search.stack # <<>>

\* C12: when the loop budget runs out before the stack is empty, match
\* raises nothing and returns the first pair of the greatest score among the
\* pairs yielded until then, or (0.0, ()) when none was yielded, and that is
\* the value stored in the cache for the call's key.
C12_TruncatedResultIsBestSoFar ==
    Truncated =>
        /\ result # Raised
        /\ IF completed = {}
           THEN result = << 0, <<>> >>
           ELSE /\ result \in completed
                /\ \A pair \in completed : pair[1] <= result[1]
        /\ cache # <<>>
        /\ cache[Len(cache)]
             = [key |-> << query, candidate, case_sensitive >>,
                value |-> result]

\* A truncated search that had yielded pairs of several scores.
C12_Witness ==
    /\ Truncated
    /\ result[1] > 0
    /\ \E pair \in completed : pair[1] < result[1]
    /\ pops = 9999

(***************************************************************************)
(* The empty query, and the cache of the class.                            *)
(***************************************************************************)
\* C13: a call of match with the empty query raises, whatever the candidate
\* (the empty one included), the instance and the cache, and leaves the
\* cache as it was.
C13_EmptyQueryRaises ==
    [][(query' = <<>> /\ caller' # NoInstance)
         => /\ outcome' = "raised"
            /\ result' = Raised
            /\ cache' = cache]_vars

\* The empty query has raised on a cache that holds entries.
C13_Witness ==
    /\ query = <<>>
    /\ outcome = "raised"
    /\ Len(cache) >= 2
    /\ candidate # <<>>

\* C14: the cache never holds more than 4096 entries; a call that stores a
\* new key in a cache of 4096 entries removes the least recently used entry
\* and no other, and a call answered from the cache makes its entry the most
\* recently used.
C14_CacheBoundedLruEvicted ==
    /\ [](Len(cache) <= 4096)
    /\ [][/\ (outcome' = "miss" /\ Len(cache) = 4096)
               => cache' = SubSeq(cache, 2, 4096)
                             \o << [key |-> << query', candidate', case_sensitive' >>,
                                    value |-> result'] >>
          /\ outcome' = "hit"
               => \E k \in 1..Len(cache) :
                     /\ cache[k].key = << query', candidate', case_sensitive' >>
                     /\ cache' = SubSeq(cache, 1, k - 1)
                                   \o SubSeq(cache, k + 1, Len(cache))
                                   \o << cache[k] >>]_vars

\* A full cache whose oldest entry was used again and then kept, while the
\* next oldest one was evicted for a new key.
C14_Witness ==
    /\ outcome = "miss"
    /\ Len(cache) = 4096
    /\ case_sensitive
    /\ \E k \in 1..Len(cache) : cache[k].key = << query, candidate, FALSE >>
    /\ cache[1].key = << <<"x">>, OtherCandidate(2), FALSE >>

\* C15: the instances use one cache: a result stored by one instance is
\* returned to any instance that asks for the same query, candidate and case
\* flag, and a call is answered from the cache only by the entry of exactly
\* its query, candidate and flag, never by one stored under the other flag
\* or for a query that differs in letter case.
C15_OneCacheKeyedExactly ==
    [][caller' # NoInstance
         => /\ (\E k \in 1..Len(cache) :
                   cache[k].key = << query', candidate', caller'.case_sensitive >>)
                 <=> outcome' = "hit"
            /\ outcome' = "hit"
                 => \E k \in 1..Len(cache) :
                       /\ cache[k].key
                            = << query', candidate', caller'.case_sensitive >>
                       /\ result' = cache[k].value]_vars

\* An instance is answered with an entry that another instance stored,
\* while the cache also holds the entries of the other flag and of the query
\* in the other letter case.
C15_Witness ==
    /\ outcome = "hit"
    /\ query = <<"a">>
    /\ ~caller.case_sensitive
    /\ \E entry \in stored_by :
          /\ entry[1] = << query, candidate, FALSE >>
          /\ entry[2] # caller.id
    /\ \E k \in 1..Len(cache) : cache[k].key = << <<"a">>, candidate, TRUE >>
    /\ \E k \in 1..Len(cache) : cache[k].key = << <<"A">>, candidate, FALSE >>

HighlightedIndex ==
    IF option_highlighted = <<>> THEN 0 ELSE option_highlighted[1]

\* The plain main text of the option at an index counted from 0.
MainTextAt(index) == options[index + 1].main.plain

\* The dropdown is displayed and has an option.
Offering == display /\ options # <<>>

\* C17: when the dropdown is displayed with at least one option, an enter or
\* tab key on the Input makes the Input's value exactly the plain main text
\* of the highlighted option, and a click on an option makes it exactly the
\* plain main text of the clicked option, whatever the value was; the
\* dropdown is hidden afterwards.
C17_CompletionReplacesValue ==
    [][/\ (Offering /\ has_focus /\ event'.key \in {"enter", "tab"})
            => /\ value' = MainTextAt(HighlightedIndex)
               /\ ~display'
       /\ (Offering /\ event'.key = "click")
            => /\ value' = MainTextAt(option_highlighted'[1])
               /\ ~display']_vars

\* The Input held "b" when "ab" was highlighted and enter pressed: it holds
\* "ab", and the dropdown is hidden.
C17_Witness ==
    /\ event.key = "enter"
    /\ last_action_was_completion
    /\ target_state.text = <<"b">>
    /\ value = <<"a", "b">>
    /\ ~display

\* The flag of the key of the next state's event.
FlagOfNextKey ==
    IF event'.key = "tab" THEN prevent_default_tab ELSE prevent_default_enter

\* C18: a tab (enter) key on the target is stopped or has its default
\* prevented only if prevent_default_tab (prevent_default_enter) is set and
\* the dropdown is displayed when the key arrives; with the flag not set and
\* the dropdown displayed with an option the completion is done all the same
\* and the key keeps its default (tab moves the focus on); with the dropdown
\* hidden the key is neither stopped nor prevented and the text stays.
C18_KeyConsumedOnlyWhenFlaggedAndDisplayed ==
    [][(has_focus /\ event'.key \in {"tab", "enter"})
         => /\ (event'.stopped \/ event'.prevented)
                 => (FlagOfNextKey /\ display)
            /\ (Offering /\ ~FlagOfNextKey)
                 => /\ value' = MainTextAt(HighlightedIndex)
                    /\ ~event'.stopped
                    /\ ~event'.prevented
                    /\ event'.key = "tab" => ~has_focus'
            /\ ~display
                 => /\ ~event'.stopped
                    /\ ~event'.prevented
                    /\ value' = value]_vars

\* With prevent_default_tab not set, tab has completed the Input and moved
\* the focus on.
C18_Witness ==
    /\ event.key = "tab"
    /\ ~prevent_default_tab
    /\ ~event.prevented
    /\ last_action_was_completion
    /\ value # <<>>
    /\ ~has_focus

\* The highlighted index is one of the list's.
HighlightInList ==
    options # <<>>
        => \E index \in 0..(Len(options) - 1) : option_highlighted = << index >>

\* The down and up keys while the dropdown is displayed: one option on, or
\* back, around the ends of the list.
MovesAround ==
    /\ (Offering /\ has_focus /\ event'.key = "down")
         => /\ option_highlighted'
                 = << IF HighlightedIndex = Len(options) - 1 THEN 0
                      ELSE HighlightedIndex + 1 >>
            /\ display'
    /\ (Offering /\ has_focus /\ event'.key = "up")
         => /\ option_highlighted'
                 = << IF HighlightedIndex = 0 THEN Len(options) - 1
                      ELSE HighlightedIndex - 1 >>
            /\ display'

\* The list has one option, whose text is the Input's value.
OnlyOptionIsValue == Len(options) = 1 /\ prompt(options[1]) = value

\* C19 as stated: with n >= 1 options, a down key on an Input whose dropdown
\* is hidden displays it with option 0 highlighted; down and up while it is
\* displayed move the highlight to (h+1) mod n and (h-1) mod n; the
\* highlighted index stays within [0, n).
C19_DownAlwaysSummons ==
    /\ []HighlightInList
    /\ [][/\ MovesAround
          /\ (has_focus /\ options # <<>> /\ ~display /\ event'.key = "down")
               => (display' /\ option_highlighted' = << 0 >>)]_vars

\* C19, amended: as stated, but a down key on a hidden dropdown whose only
\* option has the Input's value as its text changes nothing and is not
\* stopped.
C19_DownSummonsUnlessOnlyOptionIsValue ==
    /\ []HighlightInList
    /\ [][/\ MovesAround
          /\ (has_focus /\ options # <<>> /\ ~display /\ event'.key = "down")
               => IF OnlyOptionIsValue
                  THEN /\ ~display'
                       /\ option_highlighted' = option_highlighted
                       /\ ~event'.stopped
                  ELSE /\ display'
                       /\ option_highlighted' = << 0 >>]_vars

\* The up key has taken the highlight from the first of three options to the
\* last.
C19_Witness ==
    /\ event.key = "up"
    /\ display
    /\ Len(options) = 3
    /\ option_highlighted = << 2 >>

\* The dropdown comes up only when an Input.Changed or a down key is handled.
ShownOnlyByChangeOrDown ==
    (~display /\ display') => event'.key \in {"Changed", "down"}

SoleExactMatchNotBroughtUp ==
    /\ (OnlyOptionIsValue /\ event'.key = "Changed") => ~display'
    /\ (OnlyOptionIsValue /\ has_focus /\ event'.key = "down")
         => /\ display' = display
            /\ option_highlighted' = option_highlighted
            /\ ~event'.stopped
            /\ ~event'.prevented

\* C21: when the option list holds exactly one option and that option's text
\* is exactly the search string, the dropdown is not displayed; neither the
\* handling of a change of the target nor a down key displays it, and the
\* down key is not consumed.
C21_SoleExactMatchNotShown ==
    /\ [](OnlyOptionIsValue => ~display)
    /\ [][SoleExactMatchNotBroughtUp]_vars

\* What holds of C21 in every step: the decision is taken on the option list
\* as the last update left it.
C21_DecidedOnListBeforeUpdate == [][SoleExactMatchNotBroughtUp]_vars

\* The change of the target that typing "a" posted has narrowed the list of
\* two options to the one that is the search string, and displays it.
C21_ShownWithSoleExactMatch ==
    /\ event.key = "Changed"
    /\ display
    /\ OnlyOptionIsValue
    /\ value = <<"a">>
    /\ pending = 0

(***************************************************************************)
(* The dropdown summoned again after a completion.                         *)
(***************************************************************************)
\* The options that _rebuild_options gives the list for the Input as it is.
MatchesForValue == get_matches(cache, candidates, value).matches

\* A down key brings the hidden dropdown up.
DownSummons == has_focus /\ ~display /\ display' /\ event'.key = "down"

\* C22: when a down key summons the dropdown after a completion has been
\* performed, the options shown, with the emphasis on their matched
\* characters, are the matches for what the Input holds, not the options
\* computed for the search string of before the completion.
C22_SummonedAfterCompletionShowsCurrentMatches ==
    [][(completion_performed /\ DownSummons) => options' = MatchesForValue]_vars

\* Down on the empty Input, enter to complete with "b", the Input.Changed
\* handled, down again: the dropdown shows the two options computed for the
\* empty search string, while "b" matches one candidate only.
C22_SummonedWithOptionsOfBeforeCompletion ==
    /\ event.key = "down"
    /\ display
    /\ completion_performed
    /\ pending = 0
    /\ value = <<"b">>
    /\ target_state.text = value
    /\ Len(options) = 2
    /\ Len(MatchesForValue) = 1

(***************************************************************************)
(* The search string of an Input.                                          *)
(***************************************************************************)
\* The text between the start of the Input and its cursor.
TextBeforeCursor == SubSeq(value, 1, cursor_position)

\* C23: for an Input and no search_string callable, the search string the
\* completions are computed with is the text between the start of the Input
\* and the cursor: it is what get_search_string gives for the state of the
\* target, and the options that the handling of a change puts up are the
\* matches for it.  After "ba" is typed and the cursor moved left once, the
\* search string is "b".
C23_SearchStringIsTextBeforeCursor ==
    /\ [](get_search_string(get_target_state(Widget)) = TextBeforeCursor)
    /\ [][(has_focus /\ event'.key = "Changed" /\ display')
            => options' = get_matches(cache, candidates,
                                      SubSeq(value', 1, cursor_position')).matches]_vars

\* "ba" was typed and the cursor moved left once: the search string is "ba",
\* and the dropdown holds the one match for "ba", where "b" matches two
\* candidates.
C23_SearchStringIsWholeValue ==
    /\ event.key = "left"
    /\ value = <<"b", "a">>
    /\ cursor_position = 1
    /\ pending = 0
    /\ display
    /\ get_search_string(get_target_state(Widget)) = <<"b", "a">>
    /\ options = get_matches(<<>>, candidates, <<"b", "a">>).matches
    /\ Len(options) = 1
    /\ Len(get_matches(<<>>, candidates, <<"b">>).matches) = 2

(***************************************************************************)
(* PathAutoComplete: the path segment at the cursor.                       *)
(***************************************************************************)
\* How much of the Input's text is kept: the text up to and including the
\* last "/" before the cursor, nothing when there is none.
KeptLen ==
    IF \E p \in 1..cursor_position : value[p] = "/"
    THEN CHOOSE p \in 1..cursor_position :
            /\ value[p] = "/"
            /\ \A r \in (p + 1)..cursor_position : value[r] # "/"
    ELSE 0

\* The current path segment: the text between the last "/" that precedes the
\* cursor (or the start of the text) and the cursor.
Segment == SubSeq(value, KeptLen + 1, cursor_position)

\* The next state is the one after a call of apply_completion.
Applies == called'.method = "apply_completion"

\* C24: apply_completion replaces only the current path segment: the text up
\* to and including the last "/" before the cursor is kept, the selected
\* value stands behind it (it is the whole text when no "/" precedes the
\* cursor), the cursor is right behind the value, and the text behind the
\* segment is as it was.
C24_ReplacesOnlyTheSegment ==
    [][Applies =>
         /\ outcome' = "applied"
         /\ SubSeq(value', 1, KeptLen) = SubSeq(value, 1, KeptLen)
         /\ SubSeq(value', KeptLen + 1, KeptLen + Len(called'.value))
              = called'.value
         /\ cursor_position' = KeptLen + Len(called'.value)
         /\ IF KeptLen = 0
            THEN value' = called'.value
            ELSE SubSeq(value', cursor_position' + 1, Len(value'))
                   = SubSeq(value, cursor_position + 1, Len(value))]_vars

\* What apply_completion does when it is given a state that has a
\* cursor_position: all of the text behind the last "/" before the cursor
\* is replaced, and the cursor is at the end.
C24_ReplacesAllBehindTheSlash ==
    [][(Applies /\ has_cursor_position(target_state'))
         => /\ outcome' = "applied"
            /\ value' = SubSeq(value, 1, KeptLen) \o called'.value
            /\ cursor_position' = Len(value')]_vars

\* With a TargetState the call raises and the Input is as it was.
C24_RaisesForTargetState ==
    [][(Applies /\ ~has_cursor_position(target_state'))
         => /\ outcome' = "raised"
            /\ value' = value
            /\ cursor_position' = cursor_position]_vars

\* "a" was applied to "a/a/" with the cursor behind the second "a": the
\* Input holds "a/a", the "/" behind the cursor is gone.
C24_TextBehindCursorDropped ==
    /\ called = Call("apply_completion", <<"a">>)
    /\ outcome = "applied"
    /\ target_state = StateWithCursor(<<"a", "/", "a", "/">>, 3)
    /\ value = <<"a", "/", "a">>
    /\ cursor_position = 3

\* apply_completion was given the TargetState of the Input and has raised.
C24_RaisedForTargetState ==
    /\ called = Call("apply_completion", <<"a">>)
    /\ outcome = "raised"
    /\ target_state = TargetState(<<"a", "/">>, 2)
    /\ value = <<"a", "/">>

\* The next state is the one after a call of get_search_string.
Searches == called'.method = "get_search_string"

\* The last call applied a completion value that has no "/".
AppliedWithoutSlash ==
    /\ called.method = "apply_completion"
    /\ outcome = "applied"
    /\ ~has_slash(called.value)

\* C25: get_search_string returns the current path segment, the text between
\* the last "/" that precedes the cursor and the cursor, or all of the text
\* before the cursor when that has no "/"; and after apply_completion of a
\* value without "/" it returns that value for the new state.
C25_SearchStringIsTheSegment ==
    [][Searches =>
         /\ outcome' = "returned"
         /\ search_string' = Segment
         /\ AppliedWithoutSlash => search_string' = called.value]_vars

\* The same for the calls that are given a state with a cursor_position.
C25_SegmentGivenCursorPosition ==
    [][(Searches /\ has_cursor_position(target_state'))
         => /\ outcome' = "returned"
            /\ search_string' = Segment
            /\ AppliedWithoutSlash => search_string' = called.value]_vars

\* get_search_string was given the TargetState of the Input, "a/a" with the
\* cursor at its end, and has raised.
C25_RaisedForTargetState ==
    /\ called = Call("get_search_string", <<>>)
    /\ outcome = "raised"
    /\ target_state = TargetState(<<"a", "/", "a">>, 3)
    /\ value = <<"a", "/", "a">>

(***************************************************************************)
(* The alignments of a query in a candidate, and the one match returns.    *)
(***************************************************************************)
\* The subsequence alignments of q[k..] in c from offset start on: the
\* tuples of strictly increasing offsets of c that hold the characters of q.
RECURSIVE AlignmentsFrom(_, _, _, _)
AlignmentsFrom(q, c, k, start) ==
    IF k > Len(q) THEN {<<>>}
    ELSE UNION { { << p >> \o rest : rest \in AlignmentsFrom(q, c, k + 1, p + 1) }
                 : p \in {r \in start..(Len(c) - 1) : c[r + 1] = q[k]} }

Alignments(q, c) == AlignmentsFrom(q, c, 1, 0)

\* The tuple a is before the tuple b of the same length in lexicographic
\* order, or is b.
LexLeq(a, b) ==
    \/ a = b
    \/ \E k \in 1..Len(a) :
          /\ a[k] < b[k]
          /\ \A j \in 1..(k - 1) : a[j] = b[j]

\* The search of a call that did not end in the pre-check has run, now or
\* when the cached result was computed.
SearchHasRun == outcome \in {"hit", "miss"} /\ query # <<>>

\* C26: what match returns is the completed alignment of the greatest score;
\* of several alignments of that score it is the one the depth-first search
\* yields first, which is the one whose offsets are the smallest in
\* lexicographic order, the search yielding the alignments in that order.
C26_FirstMaximumIsLexSmallest ==
    SearchHasRun =>
        \A q \in {Searched(query, case_sensitive)} :
        \A c \in {Searched(candidate, case_sensitive)} :
        \A all \in {Alignments(q, c)} :
        \A yielded \in {match_yields(query, candidate, case_sensitive)} :
            /\ \A i, j \in 1..Len(yielded) :
                  i < j => /\ yielded[i][2] # yielded[j][2]
                           /\ LexLeq(yielded[i][2], yielded[j][2])
            /\ IF all = {} THEN result = << 0, <<>> >>
               ELSE /\ result[2] \in all
                    /\ result[1] = score(result[2], first_letters(c))
                    /\ \A offsets \in all :
                          /\ score(offsets, first_letters(c)) <= result[1]
                          /\ score(offsets, first_letters(c)) = result[1]
                               => LexLeq(result[2], offsets)

\* "a" in "a-a-": the alignments at offsets 0 and 2 both start a word and
\* have the greatest score; the one at 0 is returned.
C26_Witness ==
    /\ outcome = "miss"
    /\ query = <<"a">>
    /\ candidate = <<"a", "-", "a", "-">>
    /\ result = << 4 * ScoreScale, << 0 >> >>
    /\ score(<< 2 >>, first_letters(candidate)) = result[1]

(***************************************************************************)
(* The score of an alignment.                                              *)
(***************************************************************************)
\* The maximal contiguous groups of a tuple of offsets: a group starts at
\* the first offset and at every offset that does not follow its
\* predecessor directly.
MaximalGroups(offsets) ==
    Cardinality({k \in 1..Len(offsets) :
                    k = 1 \/ offsets[k] # offsets[k - 1] + 1})

\* C27: the score of a completed alignment of n characters, w of its
\* offsets on word starts, in g maximal contiguous groups, is exactly
\* (n + w) * (1 + ((n - (g - 1)) / n)^2); it is more than 0 and at most 4n.
C27_ScoreFormula ==
    SearchHasRun =>
        \A c \in {Searched(candidate, case_sensitive)} :
        \A yielded \in {match_yields(query, candidate, case_sensitive)} :
        \A k \in 1..Len(yielded) :
            \A n \in {Len(yielded[k][2])} :
            \A w \in {WordStartHits(yielded[k][2], c)} :
            \A g \in {MaximalGroups(yielded[k][2])} :
                /\ n >= 1
                /\ yielded[k][1] * n * n
                     = (n + w) * (n * n + (n - (g - 1)) * (n - (g - 1)))
                         * ScoreScale
                /\ yielded[k][1] > 0
                /\ yielded[k][1] <= 4 * n * ScoreScale

\* "ab" in "a-b": both offsets start a word and are two groups, the score is
\* (2 + 2) * (1 + (1/2)^2) = 5.
C27_Witness ==
    /\ outcome = "miss"
    /\ query = <<"a", "b">>
    /\ candidate = <<"a", "-", "b">>
    /\ result = << 5 * ScoreScale, << 0, 2 >> >>
    /\ WordStartHits(result[2], candidate) = 2
    /\ MaximalGroups(result[2]) = 2

\* <<w, g, score>> of each pair of a sequence of yielded pairs, c being the
\* candidate searched.
Profiles(yielded, c) ==
    { << WordStartHits(yielded[k][2], c), MaximalGroups(yielded[k][2]),
         yielded[k][1] >> : k \in 1..Len(yielded) }

\* Of two profiles with the same w, the one with fewer groups has the
\* strictly higher score.
FewerGroupsScoreMore(one, other) ==
    (one[1] = other[1] /\ one[2] < other[2]) => one[3] > other[3]

\* C28: of two completed alignments of the same query, in the same candidate
\* or in two candidates, that have as many offsets on word starts, the one
\* with fewer contiguous groups has the strictly higher score.  The
\* alignments are those of the first call of match, which computes them, and
\* those of the same query in every candidate.
C28_FewerGroupsScoreHigher ==
    (outcome = "miss" /\ Len(cache) = 1 /\ query # <<>>) =>
        \A here \in {Profiles(match_yields(query, candidate, case_sensitive),
                              Searched(candidate, case_sensitive))} :
            here # {} =>
                \A c \in Strings(AlignChars, 0..MaxCandLen) :
                \A there \in {Profiles(match_yields(query, c, case_sensitive),
                                       Searched(c, case_sensitive))} :
                    \A one \in here : \A other \in here \cup there :
                        /\ FewerGroupsScoreMore(one, other)
                        /\ FewerGroupsScoreMore(other, one)

\* "ab" in "a-ab": the alignment at offsets 2, 3 and the one at 0, 3 both
\* have one offset on a word start; the first is one group and scores 6, the
\* second is two groups and scores 3.75.
C28_Witness ==
    /\ outcome = "miss"
    /\ Len(cache) = 1
    /\ query = <<"a", "b">>
    /\ candidate = <<"a", "-", "a", "b">>
    /\ result = << 6 * ScoreScale, << 2, 3 >> >>
    /\ << 1, 1, 6 * ScoreScale >>
         \in Profiles(match_yields(query, candidate, case_sensitive), candidate)
    /\ << 1, 2, (15 * ScoreScale) \div 4 >>
         \in Profiles(match_yields(query, candidate, case_sensitive), candidate)

(***************************************************************************)
(* The alignments the branching search yields.                             *)
(***************************************************************************)
\* C29: when the loops of the search do not run out, the search yields every
\* subsequence alignment of the query in the candidate, and each of them
\* once: the offsets it yields are the alignments, and it yields as many
\* pairs as there are alignments.
C29_YieldsEveryAlignmentOnce ==
    (outcome = "miss" /\ query # <<>>) =>
        \A all \in {Alignments(Searched(query, case_sensitive),
                               Searched(candidate, case_sensitive))} :
        \A yielded \in {match_yields(query, candidate, case_sensitive)} :
            /\ {yielded[k][2] : k \in 1..Len(yielded)} = all
            /\ Len(yielded) = Cardinality(all)

\* "ab" in "abab": the three alignments (0, 1), (0, 3) and (2, 3) are
\* yielded, in that order.
C29_Witness ==
    /\ outcome = "miss"
    /\ query = <<"a", "b">>
    /\ candidate = <<"a", "b", "a", "b">>
    /\ Alignments(query, candidate) = { <<0, 1>>, <<0, 3>>, <<2, 3>> }
    /\ Len(match_yields(query, candidate, case_sensitive)) = 3
    /\ match_yields(query, candidate, case_sensitive)[2][2] = <<0, 3>>

(***************************************************************************)
(* The early out of the search.                                          *)
(***************************************************************************)
\* The loop of _match run with or without its early out: the pairs it
\* yields, and the searches it abandons at the early out.
RECURSIVE Traversal(_, _, _, _, _, _, _)
Traversal(q, c, pruning, stack, remaining, yielded, abandoned) ==
    IF stack = <<>> \/ remaining - 1 = 0
    THEN [yielded |-> yielded, abandoned |-> abandoned]
    ELSE
      LET node == stack[Len(stack)]
          popped == SubSeq(stack, 1, Len(stack) - 1)
          offset == find(c, q[node.query_offset + 1], node.candidate_offset)
          advance_branch ==
              NewSearch(offset + 1, node.query_offset + 1,
                        Append(node.offsets, offset))
          skip_branch ==
              NewSearch(offset + 1, node.query_offset, node.offsets)
      IN
        IF offset = -1
        THEN Traversal(q, c, pruning, popped, remaining - 1, yielded, abandoned)
        ELSE IF pruning /\ ~issuperset(c, node.candidate_offset,
                                       q, node.query_offset)
        THEN Traversal(q, c, pruning, popped, remaining - 1, yielded,
                       abandoned \cup {node})
        ELSE IF advance_branch.query_offset = Len(q)
        THEN Traversal(q, c, pruning, Append(popped, skip_branch),
                       remaining - 1,
                       Append(yielded, << score(advance_branch.offsets,
                                                first_letters(c)),
                                          advance_branch.offsets >>),
                       abandoned)
        ELSE Traversal(q, c, pruning,
                       popped \o << skip_branch, advance_branch >>,
                       remaining - 1, yielded, abandoned)

Traversed(q, c, pruning) ==
    Traversal(q, c, pruning, << NewSearch(0, 0, <<>>) >>, remaining_loops,
              <<>>, {})

\* The alignments that complete the offsets of a search: those of the rest
\* of the query in the rest of the candidate.
Completions(q, c, node) ==
    AlignmentsFrom(q, c, node.query_offset + 1, node.candidate_offset)

\* C30: the early out is sound.  A search abandoned because the characters
\* of candidate[candidate_offset:] do not hold those of query[query_offset:]
\* has no alignment that completes it, and the pairs the search yields are
\* the pairs the same loop without the early out yields.
C30_PruningIsSound ==
    (outcome = "miss" /\ query # <<>>) =>
        \A q \in {Searched(query, case_sensitive)} :
        \A c \in {Searched(candidate, case_sensitive)} :
        \A with \in {Traversed(q, c, TRUE)} :
        \A without \in {Traversed(q, c, FALSE)} :
        \A yielded \in {match_yields(query, candidate, case_sensitive)} :
            /\ with.yielded = yielded
            /\ \A node \in with.abandoned : Completions(q, c, node) = {}
            /\ {yielded[k] : k \in 1..Len(yielded)}
                 = {without.yielded[k] : k \in 1..Len(without.yielded)}
            /\ without.abandoned = {}

\* "ab" in "abaa": the search for "ab" from offset 3 on finds an "a" at
\* offset 3 and is abandoned, "a" not holding a "b"; the alignment (0, 1)
\* is yielded with and without the early out.
C30_Witness ==
    /\ outcome = "miss"
    /\ query = <<"a", "b">>
    /\ candidate = <<"a", "b", "a", "a">>
    /\ NewSearch(3, 0, <<>>) \in Traversed(query, candidate, TRUE).abandoned
    /\ find(candidate, "a", 3) = 3
    /\ result[2] = <<0, 1>>
    /\ Len(Traversed(query, candidate, FALSE).yielded) = 1

(***************************************************************************)
(* A candidate that holds the query as a substring.                        *)
(***************************************************************************)
\* The search has ended and stored its result.
SearchEnded == outcome = "miss" /\ query # <<>>

\* The candidate holds the query as a contiguous substring, the characters
\* taken as the search takes them.
HoldsQuery ==
    IsSubstring(Searched(query, case_sensitive),
                Searched(candidate, case_sensitive))

KeysPassedPrecheck ==
    \A k \in 1..Len(cache) :
        /\ RegexSearch(cache[k].key[1], cache[k].key[2], cache[k].key[3])
        /\ SubsequenceUnder(cache[k].key[1], cache[k].key[2], cache[k].key[3])

\* A step in which a call of match is rejected by the pre-check leaves the
\* cache, its order included, and the state of the search as they were and
\* returns (0.0, ()); a call whose query fails the pre-check is rejected.
RejectedTouchesNothing ==
    /\ outcome' = "rejected"
          => /\ result' = << 0, <<>> >>
             /\ cache' = cache
             /\ UNCHANGED searchVars
    /\ (outcome # "searching" /\ case_sensitive' # case_sensitive
          /\ ~RegexSearch(query, candidate, case_sensitive'))
          => outcome' = "rejected"

\* C32: a query rejected by the regex pre-check returns (0.0, ()) without
\* reading, adding to, reordering or evicting from the cache and without
\* running the search, so that only queries that pass the pre-check are keys
\* of the cache.
C32_RejectedLeavesCacheAndSearch ==
    [](KeysPassedPrecheck) /\ [][RejectedTouchesNothing]_vars

\* "A" in "a": the call that is not case sensitive has run the search and
\* stored its result; the case-sensitive call is then rejected, the cache
\* holding that one entry and the search as it ended.
C32_Witness ==
    /\ outcome = "rejected"
    /\ case_sensitive
    /\ query = <<"A">>
    /\ candidate = <<"a">>
    /\ result = << 0, <<>> >>
    /\ Len(cache) = 1
    /\ cache[1].key = << <<"A">>, <<"a">>, FALSE >>
    /\ pops > 0

(***************************************************************************)
(* Completeness of match.                                                  *)
(***************************************************************************)
\* C33: for a non-empty query, match returns a score above 0 exactly when
\* the query is a subsequence of the candidate, the characters compared as
\* the flag says.
C33_PositiveIffSubsequence ==
    (Returned /\ query # <<>>)
    => (result[1] > 0 <=> SubsequenceUnder(query, candidate, case_sensitive))

\* A string without a line feed, which the "." of the pre-check's regex does
\* not match, and without U+0130, the character whose lower-casing is longer.
Plain(s) == \A k \in 1..Len(s) : s[k] \notin {"LF", "I*"}

\* What holds of C33: the equivalence for queries and candidates that are
\* plain.
C33_PositiveIffSubsequenceOfPlain ==
    (Returned /\ query # <<>> /\ Plain(query) /\ Plain(candidate))
    => (result[1] > 0 <=> SubsequenceUnder(query, candidate, case_sensitive))

\* "ab" against "a", line feed, "b": the query is a subsequence of the
\* candidate, the pre-check rejects the call and the score is 0.
C33_RejectedAcrossLineFeed ==
    /\ outcome = "rejected"
    /\ query = <<"a", "b">>
    /\ candidate = <<"a", "LF", "b">>
    /\ SubsequenceUnder(query, candidate, case_sensitive)
    /\ result = << 0, <<>> >>

\* The call that is not case sensitive for "i" + U+0307 against U+0130: the
\* query is the lower-cased candidate, and the score is 0.
C33_RejectedSubsequence ==
    /\ outcome = "rejected"
    /\ ~case_sensitive
    /\ query = <<"i", "*">>
    /\ candidate = <<"I*">>
    /\ Lower(candidate) = query
    /\ result = << 0, <<>> >>

(***************************************************************************)
(* The Input.Changed messages that a completion posts.                     *)
(***************************************************************************)
\* Every Input.Changed that the last completion posted has been handled,
\* and nothing else has happened since.
CompletionSettled == settling /\ pending = 0

\* C34: after a completion the dropdown is hidden, each Input.Changed that
\* the completion posted leaves it hidden, and once all of them have been
\* handled it is hidden until the user does something.
C34_HiddenOnceCompletionSettled ==
    /\ settling => ~display
    /\ CompletionSettled => ~display

\* What holds of C34: the completion itself hides the dropdown, and the
\* first Input.Changed handled after it, which finds the mark of the
\* completion set, leaves it hidden and takes the mark back.
C34_FirstChangedLeavesHidden ==
    [][(settling /\ last_action_was_completion /\ event'.key = "Changed")
          => (~display /\ ~display' /\ ~last_action_was_completion')]_vars

\* With "a" typed, the completion with "ab" has emptied the Input and
\* inserted "ab", posting two Input.Changed; both have been handled, and the
\* second one has shown the dropdown with the option "ab".
C34_ShownOnceCompletionSettled ==
    /\ CompletionSettled
    /\ event.key = "Changed"
    /\ value = <<"a", "b">>
    /\ display
    /\ Len(options) = 1
    /\ options[1].main.plain = value
    /\ ~last_action_was_completion

(***************************************************************************)
(* What the mark of a completion filters.                                  *)
(***************************************************************************)
\* The mark is taken back by every _handle_target_update.
MarkTakenBack == event'.key = "Changed" => ~last_action_was_completion'

\* An Input.Changed handled while the mark is set is one that the completion
\* posted: none that the user's typing posted before is still ahead of it.
MarkFiltersCompletionOnly ==
    (event'.key = "Changed" /\ last_action_was_completion) => typed_ahead = 0

\* C35: last_action_was_completion is False after every
\* _handle_target_update, and the Input.Changed of a change typed by the
\* user is never handled as the change of a completion.
C35_MarkFiltersOnlyTheCompletion ==
    [][MarkTakenBack /\ MarkFiltersCompletionOnly]_vars

\* What holds of C35: the mark is False after every _handle_target_update,
\* and it is set only while an Input.Changed is in flight.
C35_MarkTakenBackByEveryUpdate ==
    [](last_action_was_completion => pending > 0) /\ [][MarkTakenBack]_vars

\* The Input.Changed of a backspace is in flight when tab completes with
\* "a": the mark is set, and the next Input.Changed to be handled is the one
\* of the backspace, ahead of the one of the completion.
C35_TypedChangeAheadOfCompletion ==
    /\ last_action_was_completion
    /\ event.key = "tab"
    /\ typed_ahead = 1
    /\ pending = 2
    /\ value = <<"a">>
    /\ ~display

(***************************************************************************)
(* The options of a displayed dropdown.                                    *)
(***************************************************************************)
\* The matches of the search string of the Input as it is against the
\* candidates.
MatchesForSearchString ==
    get_matches(cache, candidates,
                get_search_string(get_target_state(Widget))).matches

\* C36: when every Input.Changed has been handled and the dropdown is
\* displayed, its option list is not empty and holds exactly the matches of
\* the current search string against the candidates.
C36_DisplayedOptionsAreCurrentMatches ==
    (display /\ pending = 0)
        => (options # <<>> /\ options = MatchesForSearchString)

\* What holds of C36: the handling of an Input.Changed that leaves the
\* dropdown displayed leaves in it the matches of the search string it read,
\* which may be none, when the Input has the focus, and no option when it
\* has not.
C36_UpdateLeavesMatchesOfItsSearchString ==
    [][(event'.key = "Changed" /\ display')
          => options' = IF has_focus'
                        THEN get_matches(cache', candidates,
                                         get_search_string(target_state')).matches
                        ELSE <<>>]_vars

\* The dropdown displayed with no option: with "a" typed and its match
\* shown, a second character is typed that leaves no match.
C36_DisplayedWithoutOptions ==
    /\ display
    /\ has_focus
    /\ pending = 0
    /\ options = <<>>
    /\ Len(value) = 2
    /\ MatchesForSearchString = <<>>

\* The dropdown displayed with options that are not the matches of the
\* search string: those of before a completion, shown by a down key.
C36_DisplayedWithOtherOptions ==
    /\ display
    /\ has_focus
    /\ pending = 0
    /\ event.key = "down"
    /\ options # <<>>
    /\ options # MatchesForSearchString

(***************************************************************************)
(* The dropdown and the focus of the target.                               *)
(***************************************************************************)
\* C37: the dropdown is displayed only while the target has the focus: the
\* loss of the focus hides it, and nothing shows it before the target has
\* the focus again.
C37_DisplayedOnlyWithFocus ==
    [](display => has_focus) /\ [][~has_focus' => ~display']_vars

\* What holds of C37: the loss of the focus hides the dropdown, and only the
\* handling of an Input.Changed that was in flight shows it while the target
\* is without the focus, and then without options.
C37_HiddenAtBlurShownOnlyByUpdate ==
    [][/\ (has_focus /\ ~has_focus') => ~display'
       /\ (~has_focus' /\ display')
            => (event'.key = "Changed" /\ options' = <<>>)]_vars

\* "a" is typed and tab moves the focus away before the Input.Changed of the
\* "a" is handled; its handling shows the dropdown, without options.
C37_DisplayedWithoutFocus ==
    /\ display
    /\ ~has_focus
    /\ event.key = "Changed"
    /\ value = <<"a">>
    /\ options = <<>>
    /\ pending = 0

(***************************************************************************)
(* The two tests of an only option that matches in full.                   *)
(***************************************************************************)
\* The search string of the Input as it is.
SearchString == get_search_string(get_target_state(Widget))

\* should_show_dropdown is False for the list and the search string as they
\* are.
KeptHiddenByTyping == ~should_show_dropdown(Widget, SearchString)

\* The down-key handler declines to show the dropdown.
DownDeclines == only_option_is_search_string(Widget)

\* C38: for a list of one option, should_show_dropdown is False exactly when
\* the down-key handler declines to show the dropdown; a hidden dropdown that
\* should_show_dropdown keeps hidden because its only option matches the
\* search string in full is not shown by a down key.
C38_TheTwoTestsAgree ==
    /\ [](Len(options) = 1 => (KeptHiddenByTyping <=> DownDeclines))
    /\ [][(Len(options) = 1 /\ SearchString # <<>> /\ KeptHiddenByTyping
             /\ has_focus /\ ~display /\ event'.key = "down") => ~display']_vars

\* What holds of C38: when the down-key handler declines, should_show_dropdown
\* is False.
C38_DownDeclinesOnlyWhatTypingHides ==
    DownDeclines => KeptHiddenByTyping

\* The only option is "A" and the Input holds "a": should_show_dropdown
\* compares the two in lower case and is False, the down key has compared
\* them as they are and has shown the dropdown.
C38_ShownByDownThoughKeptHiddenByTyping ==
    /\ display
    /\ event.key = "down"
    /\ value = <<"a">>
    /\ Len(options) = 1
    /\ prompt(options[1]) = <<"A">>
    /\ KeptHiddenByTyping
    /\ ~DownDeclines

(***************************************************************************)
(* C39: get_candidates when the directory cannot be scanned, and when it   *)
(* is in the cache.                                                        *)
(***************************************************************************)
\* The cursor a state object stands for.
CursorOf(state) ==
    IF has_cursor_position(state) THEN state.cursor_position
    ELSE state.selection

\* The directory a call of get_candidates with the state is for.
DirectoryOf(state) == cache_key(slice_to(state.text, CursorOf(state)))

\* The step is a call of get_candidates; target_state' is its argument.
GetCandidatesStep ==
    /\ called'.method = "get_candidates"
    /\ file_system' = file_system

\* What get_candidates comes to with the entries: [] when they give no
\* result, and TypeError at the first DropdownItem otherwise.
ReturnedFor(entries) ==
    IF path_results(entries) = <<>>
    THEN ReturnValue("none", <<>>)
    ELSE ReturnValue("TypeError", <<>>)

\* The call is for a directory that is not cached and cannot be scanned: []
\* is returned and the cache is left as it was.
UnreadableGivesEmpty ==
    (/\ ~CacheHas(directory_cache, DirectoryOf(target_state'))
     /\ file_system[DirectoryOf(target_state')].error)
        => /\ returned' = ReturnValue("none", <<>>)
           /\ directory_cache' = directory_cache

\* The call is for a directory in the cache: the call goes on with the
\* cached entries and scans nothing.
CachedIsUsed ==
    CacheHas(directory_cache, DirectoryOf(target_state'))
        => /\ scanned' = <<>>
           /\ returned' =
                  ReturnedFor(CacheValue(directory_cache,
                                         DirectoryOf(target_state')))

\* C39, as stated: a call of get_candidates for a directory whose scan
\* fails with OSError returns [] and leaves the cache unchanged; a call for
\* a directory in the cache uses the cached entries and does not scan.
C39_UnreadableEmptyAndCachedUsed ==
    [][GetCandidatesStep => (UnreadableGivesEmpty /\ CachedIsUsed)]_vars

\* With the TargetState of _autocomplete2.py the call raises AttributeError
\* before the cache is read: nothing is scanned and the cache is left alone.
C39_RaisesForTargetState ==
    [][(GetCandidatesStep /\ ~has_cursor_position(target_state'))
           => /\ returned' = ReturnValue("AttributeError", <<>>)
              /\ scanned' = <<>>
              /\ directory_cache' = directory_cache]_vars

\* With a state that has cursor_position: a scan that fails returns [],
\* leaves the cache unchanged and so leaves the directory out of it, for the
\* next call to scan again; a cached listing, the empty one too, is used
\* without a scan and becomes the most recently used.
C39_HoldsWithCursorPosition ==
    [][(GetCandidatesStep /\ has_cursor_position(target_state'))
           => /\ UnreadableGivesEmpty
              /\ CachedIsUsed
              /\ (scanned' # <<>> /\ file_system[scanned'[1]].error)
                     => ~CacheHas(directory_cache', scanned'[1])
              /\ CacheHas(directory_cache, DirectoryOf(target_state'))
                     => directory_cache' =
                            CacheTouch(directory_cache,
                                       DirectoryOf(target_state'))
              /\ ~CacheHas(directory_cache, DirectoryOf(target_state'))
                     => scanned' = << DirectoryOf(target_state') >>]_vars

\* get_candidates was given a TargetState for a directory that cannot be
\* scanned, and raised.
C39_RaisedForUnreadableDirectory ==
    /\ called.method = "get_candidates"
    /\ ~has_cursor_position(target_state)
    /\ directory_cache = <<>>
    /\ file_system[DirectoryOf(target_state)].error
    /\ returned = ReturnValue("AttributeError", <<>>)

\* A cached empty listing was used: the directory holds entries by now, and
\* the call scanned nothing and returned [].
C39_CachedEmptyListingUsed ==
    /\ called.method = "get_candidates"
    /\ has_cursor_position(target_state)
    /\ CacheHas(directory_cache, DirectoryOf(target_state))
    /\ CacheValue(directory_cache, DirectoryOf(target_state)) = <<>>
    /\ ~file_system[DirectoryOf(target_state)].error
    /\ file_system[DirectoryOf(target_state)].entries # <<>>
    /\ scanned = <<>>
    /\ returned = ReturnValue("none", <<>>)

\* A scan failed: [] was returned and the directory is not in the cache,
\* which holds another one.
C39_FailedScanNotCached ==
    /\ called.method = "get_candidates"
    /\ scanned # <<>>
    /\ file_system[scanned[1]].error
    /\ returned = ReturnValue("none", <<>>)
    /\ directory_cache # <<>>
    /\ ~CacheHas(directory_cache, scanned[1])

(***************************************************************************)
(* C40: clear_directory_cache, and how long a cached listing is returned.  *)
(***************************************************************************)
\* The step is a call of clear_directory_cache.
ClearStep ==
    /\ called'.method = "clear_directory_cache"
    /\ file_system' = file_system

\* The directory the target's text leads to.
TargetDirectory == DirectoryOf(TargetState(value, cursor_position))

\* The first listing of the cache c is the one the directory holds in fs.
RECURSIVE HoldsCurrentListings(_, _)
HoldsCurrentListings(c, fs) ==
    \/ c = <<>>
    \/ /\ ~fs[Head(c).key].error
       /\ fs[Head(c).key].entries = Head(c).value
       /\ HoldsCurrentListings(Tail(c), fs)

\* clear_directory_cache returns, having scanned the target's directory
\* afresh; the cache holds nothing from before the call.
ClearRebuildsFromFreshScan ==
    /\ outcome' = "returned"
    /\ has_focus => scanned' = << TargetDirectory >>
    /\ HoldsCurrentListings(directory_cache', file_system)

\* A call for a directory that is not cached and can be scanned returns the
\* candidates of what the directory holds now.
UncachedGivesCurrentContents ==
    (/\ ~CacheHas(directory_cache, DirectoryOf(target_state'))
     /\ ~file_system[DirectoryOf(target_state')].error)
        => returned' =
               ReturnValue("none",
                           path_results(
                               file_system[DirectoryOf(target_state')].entries))

\* A call for a cached directory returns the candidates of the cached
\* listing.
CachedGivesCachedContents ==
    CacheHas(directory_cache, DirectoryOf(target_state'))
        => returned' =
               ReturnValue("none",
                           path_results(
                               CacheValue(directory_cache,
                                          DirectoryOf(target_state'))))

\* C40, as stated: clear_directory_cache empties the cache and rebuilds the
\* options from a fresh scan; get_candidates for a directory that is not in
\* the cache returns its current contents, and for a directory in the cache
\* the entries of the scan that was cached.
C40_ClearRescansElseCachedReturned ==
    [][/\ ClearStep => ClearRebuildsFromFreshScan
       /\ GetCandidatesStep
              => (UncachedGivesCurrentContents /\ CachedGivesCachedContents)
      ]_vars

\* clear_directory_cache empties the cache and then raises: the state that
\* _get_target_state builds has no cursor_position for get_search_string to
\* read.  Nothing is scanned and the options are not rebuilt.
C40_ClearEmptiesThenRaises ==
    [][ClearStep
           => /\ directory_cache' = <<>>
              /\ outcome' = "raised"
              /\ scanned' = <<>>
              /\ options' = options]_vars

\* The listing cached for the directory is no longer in the cache after the
\* step.
Dropped(directory) ==
    /\ CacheHas(directory_cache, directory)
    /\ \/ ~CacheHas(directory_cache', directory)
       \/ CacheValue(directory_cache', directory)
              # CacheValue(directory_cache, directory)

\* The step caches a listing for another directory while the cache is full
\* and the directory is its least recently used one.
Evicts(directory) ==
    /\ GetCandidatesStep
    /\ Len(directory_cache) = cache_size
    /\ directory_cache[1].key = directory
    /\ scanned' # <<>>
    /\ scanned'[1] # directory
    /\ CacheHas(directory_cache', scanned'[1])

\* A cached listing stays as it was scanned, whatever the directory comes
\* to hold, until clear_directory_cache is called or the directory is the
\* least recently used of a full cache when another listing is cached.
C40_CachedListingKeptUntilClearedOrEvicted ==
    [][\A directory \in Directories :
           Dropped(directory) => (ClearStep \/ Evicts(directory))]_vars

\* The cache never holds more than cache_size directories, nor a directory
\* twice.
C40_CacheWithinSize ==
    /\ Len(directory_cache) <= cache_size
    /\ \A j, k \in 1..Len(directory_cache) :
           directory_cache[j].key = directory_cache[k].key => j = k

\* For a listing with entries no candidates are returned: get_candidates
\* raises, for a TargetState before the cache is read and otherwise at the
\* first DropdownItem.
C40_NoCandidatesReturned ==
    called.method = "get_candidates" => returned.candidates = <<>>

\* After a call of get_candidates that returned, clear_directory_cache left
\* the cache empty and raised, the target's directory being readable and the
\* options not rebuilt.
C40_ClearedAndRaised ==
    /\ called.method = "clear_directory_cache"
    /\ outcome = "raised"
    /\ directory_cache = <<>>
    /\ returned.raised = "none"
    /\ ~file_system[TargetDirectory].error
    /\ file_system[TargetDirectory].entries # <<>>
    /\ options = <<>>

\* The first call for a directory with entries cached them and raised
\* TypeError.
C40_RaisedForListing ==
    /\ called.method = "get_candidates"
    /\ scanned # <<>>
    /\ returned = ReturnValue("TypeError", <<>>)
    /\ CacheHas(directory_cache, scanned[1])
    /\ CacheValue(directory_cache, scanned[1]) # <<>>

\* A full cache holds a listing that the directory no longer has.
C40_StaleListingCached ==
    /\ Len(directory_cache) = cache_size
    /\ ~HoldsCurrentListings(directory_cache, file_system)
    /\ called.method = "get_candidates"
    /\ scanned = <<>>
    /\ returned.raised # "AttributeError"

====
